---- MODULE Spec2Model ----
(***************************************************************************)
(* terraform-provider-tlspc: the API client (internal/tlspc) and the       *)
(* resource reconcilers (internal/provider) as state machines.             *)
(*                                                                         *)
(* One managed resource instance is followed at a time.  The hosting       *)
(* framework hands a lifecycle operation the planned configuration and the *)
(* previous state; the reconciler issues HTTP requests through the client; *)
(* the vendor API's answers are inputs chosen by the environment.          *)
(*   kind   the resource type of the instance                              *)
(*   state  the persisted state of the instance (absent before Create and  *)
(*          after a successful Delete)                                     *)
(*   op     the lifecycle operation that just ran: name, plan, prior state *)
(*   calls  the HTTP requests that operation issued, in order              *)
(*   diag   the error diagnostics that operation reported                  *)
(*   ret    an API-client call on its own: function, id argument, reply,    *)
(*          result                                                         *)
(*   transport  http.DefaultClient.Transport, the process-wide chain of    *)
(*          header wrappers the GraphQL clients share, innermost first     *)
(*   sent   the last request sent through a GraphQL client: the client     *)
(*          handle it belongs to and the headers that went on the wire     *)
(*   provider  the provider block: its declared configuration, the        *)
(*          process environment and the client handle Configure built      *)
(*   threads  the lifecycle operations running concurrently inside         *)
(*          GetGraphQLClient: where each is and what it has loaded         *)
(***************************************************************************)
EXTENDS Integers, Sequences, FiniteSets, TLC

VARIABLES kind, state, op, calls, diag, ret, transport, sent, provider, threads

vars == <<kind, state, op, calls, diag, ret, transport, sent, provider, threads>>

(***************************************************************************)
(* Values                                                                  *)
(***************************************************************************)

\* Identifiers the vendor API hands out; "" is the empty identifier.
Ids == {"id1", "id2"}

IdOrEmpty == Ids \cup {""}

StatusOK == 200

StatusAccepted == 202

StatusNoContent == 204

\* HTTP status codes the API may answer with.
Statuses == {StatusOK, 201, StatusAccepted, StatusNoContent, 400, 404, 500}

\* Attributes of a decoded JSON document other than its identifier.
NoAttrs == [kind |-> "none"]

\* A response body: whether it decodes into the expected struct (valid), the
\* top-level "id" (absent decodes to ""), the ids of the elements of the
\* wrapping list ("plugins", "applications", ...), and further attributes.
EmptyBody == [valid |-> FALSE, id |-> "", items |-> <<>>, attrs |-> NoAttrs]

JSONBody(id, items, attrs) == [valid |-> TRUE, id |-> id, items |-> items, attrs |-> attrs]

\* An answer of the environment to one HTTP request: the transport fails
\* (client.Do returns an error), reading the body fails (io.ReadAll returns
\* an error), or a status and a body arrive.
TransportFailure == [fail |-> "transport", status |-> 0, body |-> EmptyBody]

ReadFailure(status) == [fail |-> "read", status |-> status, body |-> EmptyBody]

Response(status, body) == [fail |-> "none", status |-> status, body |-> body]

(***************************************************************************)
(* Errors and diagnostics                                                  *)
(***************************************************************************)

\* A Go error value: nil, or a message that may embed the raw response body.
NilErr == [nil |-> TRUE, msg |-> "", hasBody |-> FALSE, body |-> EmptyBody]

Errorf(msg) == [nil |-> FALSE, msg |-> msg, hasBody |-> FALSE, body |-> EmptyBody]

ErrorfBody(msg, body) == [nil |-> FALSE, msg |-> msg, hasBody |-> TRUE, body |-> body]

\* resp.Diagnostics.AddError(summary, detail [+ err.Error()])
Diagnostic(summary, detail, err) == [summary |-> summary, detail |-> detail, err |-> err]

HasError(d) == Len(d) > 0

(***************************************************************************)
(* HTTP requests                                                           *)
(***************************************************************************)

\* A nil request body.
NilBody == [nil |-> TRUE]

\* c.doRequest(method, c.Path(`%s` + collection + id), body), tagged with the
\* client function that issued it.
doRequest(fn, method, collection, id, body) ==
    [fn |-> fn, method |-> method, collection |-> collection, id |-> id, body |-> body]

\* What a client function returns: the requests it issued, its error, and the
\* decoded value (meaningful when the error is nil).
Return(reqs, err, value) == [reqs |-> reqs, err |-> err, value |-> value]

(***************************************************************************)
(* API client: service accounts (internal/tlspc/tlspc.go)                  *)
(***************************************************************************)

\* The zero value of struct ServiceAccount.
ServiceAccount ==
    [id |-> "", name |-> "", owner |-> "", scopes |-> {}, credentialLifetime |-> 0,
     publicKey |-> "", authenticationType |-> "", ociAccountName |-> "",
     ociRegistryToken |-> "", jwksURI |-> "", issuerURL |-> "", audience |-> "",
     subject |-> "", applications |-> {}]

\* Mutant: no field is tagged `omitempty`.
ServiceAccountKeysNoOmit(sa) == DOMAIN sa

\* The JSON keys json.Marshal writes for a ServiceAccount: name, owner and
\* scopes always, every `omitempty` field only when it is not its zero value.
ServiceAccountKeys(sa) ==
    {"name", "owner", "scopes"}
        \cup (IF sa.id # "" THEN {"id"} ELSE {})
        \cup (IF sa.credentialLifetime # 0 THEN {"credentialLifetime"} ELSE {})
        \cup (IF sa.publicKey # "" THEN {"publicKey"} ELSE {})
        \cup (IF sa.authenticationType # "" THEN {"authenticationType"} ELSE {})
        \cup (IF sa.ociAccountName # "" THEN {"ociAccountName"} ELSE {})
        \cup (IF sa.ociRegistryToken # "" THEN {"ociRegistryToken"} ELSE {})
        \cup (IF sa.jwksURI # "" THEN {"jwksURI"} ELSE {})
        \cup (IF sa.issuerURL # "" THEN {"issuerURL"} ELSE {})
        \cup (IF sa.audience # "" THEN {"audience"} ELSE {})
        \cup (IF sa.subject # "" THEN {"subject"} ELSE {})
        \cup (IF sa.applications # {} THEN {"applications"} ELSE {})

\* json.Marshal(sa): the JSON object, as a function from its keys.
MarshalServiceAccount(sa) == [k \in ServiceAccountKeys(sa) |-> sa[k]]

\* Client.CreateServiceAccount: POST, then the decoded id must be non-empty.
\* The status code is not looked at.
CreateServiceAccount(sa, reply) ==
    LET req == doRequest("CreateServiceAccount", "POST", "/v1/serviceaccounts", "",
                         MarshalServiceAccount(sa))
    IN  IF reply.fail = "transport"
            THEN Return(<<req>>, Errorf("Error posting request"), EmptyBody)
        ELSE IF reply.fail = "read"
            THEN Return(<<req>>, Errorf("Error reading response body"), EmptyBody)
        ELSE IF ~reply.body.valid
            THEN Return(<<req>>, ErrorfBody("Error decoding response", reply.body), EmptyBody)
        ELSE IF reply.body.id = ""
            THEN Return(<<req>>,
                        ErrorfBody("Didn't create a service account; response was", reply.body),
                        EmptyBody)
        ELSE Return(<<req>>, NilErr, reply.body)

\* Client.GetServiceAccount
GetServiceAccount(id, reply) ==
    LET req == doRequest("GetServiceAccount", "GET", "/v1/serviceaccounts/", id, NilBody)
    IN  IF reply.fail = "transport"
            THEN Return(<<req>>, Errorf("Error getting service account"), EmptyBody)
        ELSE IF reply.fail = "read"
            THEN Return(<<req>>, Errorf("Error reading response body"), EmptyBody)
        ELSE IF ~reply.body.valid
            THEN Return(<<req>>, ErrorfBody("Error decoding response", reply.body), EmptyBody)
        ELSE IF reply.body.id = ""
            THEN Return(<<req>>,
                        ErrorfBody("Didn't find a Service Account; response was", reply.body),
                        EmptyBody)
        ELSE Return(<<req>>, NilErr, reply.body)

\* Client.UpdateServiceAccount: an empty id is refused before any request;
\* the id moves from the body to the path; success is status 204 alone, the
\* body is read only to fill the error text.
UpdateServiceAccount(sa, reply) ==
    LET req == doRequest("UpdateServiceAccount", "PATCH", "/v1/serviceaccounts/", sa.id,
                         MarshalServiceAccount([sa EXCEPT !.id = ""]))
    IN  IF sa.id = ""
            THEN Return(<<>>, Errorf("Empty ID"), EmptyBody)
        ELSE IF reply.fail = "transport"
            THEN Return(<<req>>, Errorf("Error patching request"), EmptyBody)
        ELSE IF reply.status # StatusNoContent
            THEN Return(<<req>>,
                        ErrorfBody("Failed to update Service Account; response was", reply.body),
                        EmptyBody)
        ELSE Return(<<req>>, NilErr, EmptyBody)

\* Client.DeleteServiceAccount
DeleteServiceAccount(id, reply) ==
    LET req == doRequest("DeleteServiceAccount", "DELETE", "/v1/serviceaccounts/", id, NilBody)
    IN  IF reply.fail = "transport"
            THEN Return(<<req>>, Errorf("Error with delete request"), EmptyBody)
        ELSE IF reply.status # StatusNoContent
            THEN Return(<<req>>,
                        ErrorfBody("Failed to delete Service Account; response was", reply.body),
                        EmptyBody)
        ELSE Return(<<req>>, NilErr, EmptyBody)

(***************************************************************************)
(* API client: teams (internal/tlspc/tlspc.go)                             *)
(***************************************************************************)

\* The zero value of struct Team.
Team == [id |-> "", name |-> "", role |-> "", owners |-> {}, members |-> {}]

\* json.Marshal(team): only id is `omitempty`.
MarshalTeam(team) ==
    [k \in (IF team.id # "" THEN {"id"} ELSE {}) \cup {"name", "role", "owners", "members"} |->
        team[k]]

\* Client.CreateTeam
CreateTeam(team, reply) ==
    LET req == doRequest("CreateTeam", "POST", "/v1/teams", "", MarshalTeam(team))
    IN  IF reply.fail = "transport"
            THEN Return(<<req>>, Errorf("Error posting request"), EmptyBody)
        ELSE IF reply.fail = "read"
            THEN Return(<<req>>, Errorf("Error reading response body"), EmptyBody)
        ELSE IF ~reply.body.valid
            THEN Return(<<req>>, ErrorfBody("Error decoding response", reply.body), EmptyBody)
        ELSE IF reply.body.id = ""
            THEN Return(<<req>>, ErrorfBody("Didn't create a team; response was", reply.body),
                        EmptyBody)
        ELSE Return(<<req>>, NilErr, reply.body)

\* Client.GetTeam
GetTeam(id, reply) ==
    LET req == doRequest("GetTeam", "GET", "/v1/teams/", id, NilBody)
    IN  IF reply.fail = "transport"
            THEN Return(<<req>>, Errorf("Error getting team"), EmptyBody)
        ELSE IF reply.fail = "read"
            THEN Return(<<req>>, Errorf("Error reading response body"), EmptyBody)
        ELSE IF ~reply.body.valid
            THEN Return(<<req>>, ErrorfBody("Error decoding response", reply.body), EmptyBody)
        ELSE IF reply.body.id = ""
            THEN Return(<<req>>, ErrorfBody("Didn't find a Team; response was", reply.body),
                        EmptyBody)
        ELSE Return(<<req>>, NilErr, reply.body)

\* Mutant: UpdateTeam returns whatever decodes, like the other updates.
UpdateTeamNoIdCheck(team, reply) ==
    LET req == doRequest("UpdateTeam", "PATCH", "/v1/teams/", team.id,
                         [name |-> team.name, role |-> team.role])
    IN  IF team.id = ""
            THEN Return(<<>>, Errorf("Empty ID"), EmptyBody)
        ELSE IF reply.fail = "transport"
            THEN Return(<<req>>, Errorf("Error patching request"), EmptyBody)
        ELSE IF reply.fail = "read"
            THEN Return(<<req>>, Errorf("Error reading response body"), EmptyBody)
        ELSE IF reply.status # StatusOK
            THEN Return(<<req>>, ErrorfBody("Failed to update Team; response was", reply.body),
                        EmptyBody)
        ELSE IF ~reply.body.valid
            THEN Return(<<req>>, ErrorfBody("Error decoding response", reply.body), EmptyBody)
        ELSE Return(<<req>>, NilErr, reply.body)

\* Client.UpdateTeam: PATCH of {name, role}; status 200 and a non-empty
\* decoded id are both required.
UpdateTeam(team, reply) ==
    LET req == doRequest("UpdateTeam", "PATCH", "/v1/teams/", team.id,
                         [name |-> team.name, role |-> team.role])
    IN  IF team.id = ""
            THEN Return(<<>>, Errorf("Empty ID"), EmptyBody)
        ELSE IF reply.fail = "transport"
            THEN Return(<<req>>, Errorf("Error patching request"), EmptyBody)
        ELSE IF reply.fail = "read"
            THEN Return(<<req>>, Errorf("Error reading response body"), EmptyBody)
        ELSE IF reply.status # StatusOK
            THEN Return(<<req>>, ErrorfBody("Failed to update Team; response was", reply.body),
                        EmptyBody)
        ELSE IF ~reply.body.valid
            THEN Return(<<req>>, ErrorfBody("Error decoding response", reply.body), EmptyBody)
        ELSE IF reply.body.id = ""
            THEN Return(<<req>>, ErrorfBody("Didn't get a Team ID; response was", reply.body),
                        EmptyBody)
        ELSE Return(<<req>>, NilErr, reply.body)

\* Client.AddTeamOwners
AddTeamOwners(id, owners, reply) ==
    LET req == doRequest("AddTeamOwners", "POST", "/v1/teams/" \o id \o "/owners", "",
                         [owners |-> owners])
    IN  IF reply.fail = "transport"
            THEN Return(<<req>>, Errorf("Error posting request"), EmptyBody)
        ELSE IF reply.fail = "read"
            THEN Return(<<req>>, Errorf("Error reading response body"), EmptyBody)
        ELSE IF ~reply.body.valid
            THEN Return(<<req>>, ErrorfBody("Error decoding response", reply.body), EmptyBody)
        ELSE IF reply.body.id = ""
            THEN Return(<<req>>, ErrorfBody("Didn't get a Team ID; response was", reply.body),
                        EmptyBody)
        ELSE Return(<<req>>, NilErr, reply.body)

\* Client.RemoveTeamOwners
RemoveTeamOwners(id, owners, reply) ==
    LET req == doRequest("RemoveTeamOwners", "DELETE", "/v1/teams/" \o id \o "/owners", "",
                         [owners |-> owners])
    IN  IF reply.fail = "transport"
            THEN Return(<<req>>, Errorf("Error with delete request"), EmptyBody)
        ELSE IF reply.fail = "read"
            THEN Return(<<req>>, Errorf("Error reading response body"), EmptyBody)
        ELSE IF ~reply.body.valid
            THEN Return(<<req>>, ErrorfBody("Error decoding response", reply.body), EmptyBody)
        ELSE IF reply.body.id = ""
            THEN Return(<<req>>, ErrorfBody("Didn't get a Team ID; response was", reply.body),
                        EmptyBody)
        ELSE Return(<<req>>, NilErr, reply.body)

\* Mutant: only the documented 204 counts as success.
DeleteTeamNoContentOnly(id, reply) ==
    LET req == doRequest("DeleteTeam", "DELETE", "/v1/teams/", id, NilBody)
    IN  IF reply.fail = "transport"
            THEN Return(<<req>>, Errorf("Error with delete request"), EmptyBody)
        ELSE IF reply.status # StatusNoContent
            THEN Return(<<req>>, ErrorfBody("Failed to delete team; response was", reply.body),
                        EmptyBody)
        ELSE Return(<<req>>, NilErr, EmptyBody)

\* Client.DeleteTeam: 204 and 200 both count as success.
DeleteTeam(id, reply) ==
    LET req == doRequest("DeleteTeam", "DELETE", "/v1/teams/", id, NilBody)
    IN  IF reply.fail = "transport"
            THEN Return(<<req>>, Errorf("Error with delete request"), EmptyBody)
        ELSE IF reply.status # StatusNoContent /\ reply.status # StatusOK
            THEN Return(<<req>>, ErrorfBody("Failed to delete team; response was", reply.body),
                        EmptyBody)
        ELSE Return(<<req>>, NilErr, EmptyBody)

(***************************************************************************)
(* API client: Plugin (internal/tlspc/tlspc.go)                            *)
(***************************************************************************)

\* The zero value of struct Plugin.
Plugin ==
    [id |-> "", pluginType |-> "", manifest |-> ""]

\* json.Marshal(p): only id is `omitempty`.
MarshalPlugin(p) ==
    [k \in DOMAIN p \ ((IF p.id = "" THEN {"id"} ELSE {})) |-> p[k]]

\* Client.CreatePlugin
CreatePlugin(p, reply) ==
    LET req == doRequest("CreatePlugin", "POST", "/v1/plugins", "", MarshalPlugin(p))
    IN  IF reply.fail = "transport"
            THEN Return(<<req>>, Errorf("Error posting request"), EmptyBody)
        ELSE IF reply.fail = "read"
            THEN Return(<<req>>, Errorf("Error reading response body"), EmptyBody)
        ELSE IF ~reply.body.valid
            THEN Return(<<req>>, ErrorfBody("Error decoding response", reply.body), EmptyBody)
        ELSE IF Len(reply.body.items) # 1
            THEN Return(<<req>>,
                        ErrorfBody("Unexpected number of plugins returned", reply.body),
                        EmptyBody)
        ELSE IF reply.body.items[1] = ""
            THEN Return(<<req>>, ErrorfBody("Didn't create a plugin; response was", reply.body),
                        EmptyBody)
        ELSE Return(<<req>>, NilErr, [reply.body EXCEPT !.id = reply.body.items[1]])

\* Client.GetPlugin
GetPlugin(id, reply) ==
    LET req == doRequest("GetPlugin", "GET", "/v1/plugins/", id, NilBody)
    IN  IF reply.fail = "transport"
            THEN Return(<<req>>, Errorf("Error getting plugin"), EmptyBody)
        ELSE IF reply.fail = "read"
            THEN Return(<<req>>, Errorf("Error reading response body"), EmptyBody)
        ELSE IF ~reply.body.valid
            THEN Return(<<req>>, ErrorfBody("Error decoding response", reply.body), EmptyBody)
        ELSE IF reply.body.id = ""
            THEN Return(<<req>>, ErrorfBody("Didn't find a Plugin; response was", reply.body),
                        EmptyBody)
        ELSE Return(<<req>>, NilErr, reply.body)

\* Client.UpdatePlugin: the status must be StatusOK; the body is read only for the
\* error text (a failed read leaves it empty).
UpdatePlugin(p, reply) ==
    LET req == doRequest("UpdatePlugin", "PATCH", "/v1/plugins/", p.id,
                         MarshalPlugin([p EXCEPT !.id = ""]))
    IN  IF p.id = ""
            THEN Return(<<>>, Errorf("Empty ID"), EmptyBody)
        ELSE IF reply.fail = "transport"
            THEN Return(<<req>>, Errorf("Error patching request"), EmptyBody)
        ELSE IF reply.status # StatusOK
            THEN Return(<<req>>, ErrorfBody("Failed to update Plugin; response was", reply.body),
                        EmptyBody)
        ELSE Return(<<req>>, NilErr, EmptyBody)

\* Client.DeletePlugin
DeletePlugin(id, reply) ==
    LET req == doRequest("DeletePlugin", "DELETE", "/v1/plugins/", id, NilBody)
    IN  IF reply.fail = "transport"
            THEN Return(<<req>>, Errorf("Error with delete request"), EmptyBody)
        ELSE IF reply.status # StatusNoContent
            THEN Return(<<req>>, ErrorfBody("Failed to delete Plugin; response was", reply.body),
                        EmptyBody)
        ELSE Return(<<req>>, NilErr, EmptyBody)

(***************************************************************************)
(* API client: CertificateTemplate (internal/tlspc/tlspc.go)               *)
(***************************************************************************)

\* The zero value of struct CAProductTemplate.
CAProductTemplate ==
    [certificateAuthority |-> "", productName |-> "", productTypes |-> {},
     validityPeriod |-> ""]

\* The zero value of struct CertificateTemplate.
CertificateTemplate ==
    [id |-> "", name |-> "", certificateAuthority |-> "",
     certificateAuthorityProductOptionId |-> "", keyReuse |-> FALSE, keyTypes |-> {},
     product |-> CAProductTemplate, sanRegexes |-> {}, subjectCNRegexes |-> {},
     subjectCValues |-> {}, subjectLRegexes |-> {}, subjectORegexes |-> {},
     subjectOURegexes |-> {}, subjectSTRegexes |-> {}]

\* json.Marshal(ct): only id is `omitempty`.
MarshalCertificateTemplate(ct) ==
    [k \in DOMAIN ct \ ((IF ct.id = "" THEN {"id"} ELSE {})) |-> ct[k]]

\* Client.CreateCertificateTemplate
CreateCertificateTemplate(ct, reply) ==
    LET req == doRequest("CreateCertificateTemplate", "POST", "/v1/certificateissuingtemplates", "", MarshalCertificateTemplate(ct))
    IN  IF reply.fail = "transport"
            THEN Return(<<req>>, Errorf("Error posting request"), EmptyBody)
        ELSE IF reply.fail = "read"
            THEN Return(<<req>>, Errorf("Error reading response body"), EmptyBody)
        ELSE IF ~reply.body.valid
            THEN Return(<<req>>, ErrorfBody("Error decoding response", reply.body), EmptyBody)
        ELSE IF Len(reply.body.items) # 1
            THEN Return(<<req>>,
                        ErrorfBody("Unexpected number of templates returned", reply.body),
                        EmptyBody)
        ELSE IF reply.body.items[1] = ""
            THEN Return(<<req>>, ErrorfBody("Didn't create a template; response was", reply.body),
                        EmptyBody)
        ELSE Return(<<req>>, NilErr, [reply.body EXCEPT !.id = reply.body.items[1]])

\* Client.GetCertificateTemplate
GetCertificateTemplate(id, reply) ==
    LET req == doRequest("GetCertificateTemplate", "GET", "/v1/certificateissuingtemplates/", id, NilBody)
    IN  IF reply.fail = "transport"
            THEN Return(<<req>>, Errorf("Error getting certificate template"), EmptyBody)
        ELSE IF reply.fail = "read"
            THEN Return(<<req>>, Errorf("Error reading response body"), EmptyBody)
        ELSE IF ~reply.body.valid
            THEN Return(<<req>>, ErrorfBody("Error decoding response", reply.body), EmptyBody)
        ELSE IF reply.body.id = ""
            THEN Return(<<req>>, ErrorfBody("Didn't find a Certificate Template; response was", reply.body),
                        EmptyBody)
        ELSE Return(<<req>>, NilErr, reply.body)

\* Client.UpdateCertificateTemplate: the status must be StatusOK or StatusAccepted and the body must decode;
\* the decoded id is not looked at.
UpdateCertificateTemplate(ct, reply) ==
    LET req == doRequest("UpdateCertificateTemplate", "PUT", "/v1/certificateissuingtemplates/", ct.id,
                         MarshalCertificateTemplate([ct EXCEPT !.id = ""]))
    IN  IF ct.id = ""
            THEN Return(<<>>, Errorf("Empty ID"), EmptyBody)
        ELSE IF reply.fail = "transport"
            THEN Return(<<req>>, Errorf("Error patching request"), EmptyBody)
        ELSE IF reply.fail = "read"
            THEN Return(<<req>>, Errorf("Error reading response body"), EmptyBody)
        ELSE IF reply.status # StatusOK /\ reply.status # StatusAccepted
            THEN Return(<<req>>, ErrorfBody("Failed to update certificate template; response was", reply.body),
                        EmptyBody)
        ELSE IF ~reply.body.valid
            THEN Return(<<req>>, ErrorfBody("Error decoding response", reply.body), EmptyBody)
        ELSE Return(<<req>>, NilErr, reply.body)

\* Client.DeleteCertificateTemplate
DeleteCertificateTemplate(id, reply) ==
    LET req == doRequest("DeleteCertificateTemplate", "DELETE", "/v1/certificateissuingtemplates/", id, NilBody)
    IN  IF reply.fail = "transport"
            THEN Return(<<req>>, Errorf("Error with delete request"), EmptyBody)
        ELSE IF reply.status # StatusNoContent
            THEN Return(<<req>>, ErrorfBody("Failed to delete certificate template; response was", reply.body),
                        EmptyBody)
        ELSE Return(<<req>>, NilErr, EmptyBody)

(***************************************************************************)
(* API client: Application (internal/tlspc/tlspc.go)                       *)
(***************************************************************************)

\* The zero value of struct Application.
Application ==
    [id |-> "", name |-> "", ownerIdsAndTypes |-> {},
     certificateIssuingTemplateAliasIdMap |-> {}, fqdns |-> {}, internalPorts |-> {},
     ipRanges |-> {}, ports |-> {}]

\* json.Marshal(app): only id is `omitempty`.
MarshalApplication(app) ==
    [k \in DOMAIN app \ ((IF app.id = "" THEN {"id"} ELSE {})) |-> app[k]]

\* Mutant: the single returned application is accepted without looking at its id.
CreateApplicationNoIdCheck(app, reply) ==
    LET req == doRequest("CreateApplication", "POST", "/outagedetection/v1/applications", "", MarshalApplication(app))
    IN  IF reply.fail = "transport"
            THEN Return(<<req>>, Errorf("Error posting request"), EmptyBody)
        ELSE IF reply.fail = "read"
            THEN Return(<<req>>, Errorf("Error reading response body"), EmptyBody)
        ELSE IF ~reply.body.valid
            THEN Return(<<req>>, ErrorfBody("Error decoding response", reply.body), EmptyBody)
        ELSE IF Len(reply.body.items) # 1
            THEN Return(<<req>>,
                        ErrorfBody("Unexpected number of applications returned", reply.body),
                        EmptyBody)
        ELSE Return(<<req>>, NilErr, [reply.body EXCEPT !.id = reply.body.items[1]])

\* Client.CreateApplication
CreateApplication(app, reply) ==
    LET req == doRequest("CreateApplication", "POST", "/outagedetection/v1/applications", "", MarshalApplication(app))
    IN  IF reply.fail = "transport"
            THEN Return(<<req>>, Errorf("Error posting request"), EmptyBody)
        ELSE IF reply.fail = "read"
            THEN Return(<<req>>, Errorf("Error reading response body"), EmptyBody)
        ELSE IF ~reply.body.valid
            THEN Return(<<req>>, ErrorfBody("Error decoding response", reply.body), EmptyBody)
        ELSE IF Len(reply.body.items) # 1
            THEN Return(<<req>>,
                        ErrorfBody("Unexpected number of applications returned", reply.body),
                        EmptyBody)
        ELSE IF reply.body.items[1] = ""
            THEN Return(<<req>>, ErrorfBody("Didn't create a application; response was", reply.body),
                        EmptyBody)
        ELSE Return(<<req>>, NilErr, [reply.body EXCEPT !.id = reply.body.items[1]])

\* Client.GetApplication
GetApplication(id, reply) ==
    LET req == doRequest("GetApplication", "GET", "/outagedetection/v1/applications/", id, NilBody)
    IN  IF reply.fail = "transport"
            THEN Return(<<req>>, Errorf("Error getting application"), EmptyBody)
        ELSE IF reply.fail = "read"
            THEN Return(<<req>>, Errorf("Error reading response body"), EmptyBody)
        ELSE IF ~reply.body.valid
            THEN Return(<<req>>, ErrorfBody("Error decoding response", reply.body), EmptyBody)
        ELSE IF reply.body.id = ""
            THEN Return(<<req>>, ErrorfBody("Didn't find a Application; response was", reply.body),
                        EmptyBody)
        ELSE Return(<<req>>, NilErr, reply.body)

\* Client.UpdateApplication: the status must be StatusOK or StatusAccepted and the body must decode;
\* the decoded id is not looked at.
UpdateApplication(app, reply) ==
    LET req == doRequest("UpdateApplication", "PUT", "/outagedetection/v1/applications/", app.id,
                         MarshalApplication([app EXCEPT !.id = ""]))
    IN  IF app.id = ""
            THEN Return(<<>>, Errorf("Empty ID"), EmptyBody)
        ELSE IF reply.fail = "transport"
            THEN Return(<<req>>, Errorf("Error patching request"), EmptyBody)
        ELSE IF reply.fail = "read"
            THEN Return(<<req>>, Errorf("Error reading response body"), EmptyBody)
        ELSE IF reply.status # StatusOK /\ reply.status # StatusAccepted
            THEN Return(<<req>>, ErrorfBody("Failed to update application; response was", reply.body),
                        EmptyBody)
        ELSE IF ~reply.body.valid
            THEN Return(<<req>>, ErrorfBody("Error decoding response", reply.body), EmptyBody)
        ELSE Return(<<req>>, NilErr, reply.body)

\* Client.DeleteApplication
DeleteApplication(id, reply) ==
    LET req == doRequest("DeleteApplication", "DELETE", "/outagedetection/v1/applications/", id, NilBody)
    IN  IF reply.fail = "transport"
            THEN Return(<<req>>, Errorf("Error with delete request"), EmptyBody)
        ELSE IF reply.status # StatusOK
            THEN Return(<<req>>, ErrorfBody("Failed to delete certificate template; response was", reply.body),
                        EmptyBody)
        ELSE Return(<<req>>, NilErr, EmptyBody)

(***************************************************************************)
(* API client: FireflyConfig (internal/tlspc/tlspc.go)                     *)
(***************************************************************************)

\* The zero value of struct FireflyConfig.
FireflyConfig ==
    [id |-> "", name |-> "", policyIds |-> {}, policies |-> {}, serviceAccountIds |-> {},
     subCaProviderId |-> "", minTlsVersion |-> "", cloudProviders |-> {}]

\* json.Marshal(ff): id and policies are `omitempty`.
MarshalFireflyConfig(ff) ==
    [k \in DOMAIN ff \ ((IF ff.id = "" THEN {"id"} ELSE {}) \cup (IF ff.policies = {} THEN {"policies"} ELSE {})) |-> ff[k]]

\* Client.CreateFireflyConfig
CreateFireflyConfig(ff, reply) ==
    LET req == doRequest("CreateFireflyConfig", "POST", "/v1/distributedissuers/configurations", "", MarshalFireflyConfig(ff))
    IN  IF reply.fail = "transport"
            THEN Return(<<req>>, Errorf("Error posting request"), EmptyBody)
        ELSE IF reply.fail = "read"
            THEN Return(<<req>>, Errorf("Error reading response body"), EmptyBody)
        ELSE IF ~reply.body.valid
            THEN Return(<<req>>, ErrorfBody("Error decoding response", reply.body), EmptyBody)
        ELSE IF reply.body.id = ""
            THEN Return(<<req>>, ErrorfBody("Didn't create a Firefly Config; response was", reply.body),
                        EmptyBody)
        ELSE Return(<<req>>, NilErr, reply.body)

\* Client.GetFireflyConfig
GetFireflyConfig(id, reply) ==
    LET req == doRequest("GetFireflyConfig", "GET", "/v1/distributedissuers/configurations/", id, NilBody)
    IN  IF reply.fail = "transport"
            THEN Return(<<req>>, Errorf("Error getting Firefly Config"), EmptyBody)
        ELSE IF reply.fail = "read"
            THEN Return(<<req>>, Errorf("Error reading response body"), EmptyBody)
        ELSE IF ~reply.body.valid
            THEN Return(<<req>>, ErrorfBody("Error decoding response", reply.body), EmptyBody)
        ELSE IF reply.body.id = ""
            THEN Return(<<req>>, ErrorfBody("Didn't find a Firefly Config; response was", reply.body),
                        EmptyBody)
        ELSE Return(<<req>>, NilErr, reply.body)

\* Client.UpdateFireflyConfig: the status must be StatusOK or StatusAccepted and the body must decode;
\* the decoded id is not looked at.
UpdateFireflyConfig(ff, reply) ==
    LET req == doRequest("UpdateFireflyConfig", "PATCH", "/v1/distributedissuers/configurations/", ff.id,
                         MarshalFireflyConfig([ff EXCEPT !.id = ""]))
    IN  IF ff.id = ""
            THEN Return(<<>>, Errorf("Empty ID"), EmptyBody)
        ELSE IF reply.fail = "transport"
            THEN Return(<<req>>, Errorf("Error patching request"), EmptyBody)
        ELSE IF reply.fail = "read"
            THEN Return(<<req>>, Errorf("Error reading response body"), EmptyBody)
        ELSE IF reply.status # StatusOK /\ reply.status # StatusAccepted
            THEN Return(<<req>>, ErrorfBody("Failed to update Firefly Config; response was", reply.body),
                        EmptyBody)
        ELSE IF ~reply.body.valid
            THEN Return(<<req>>, ErrorfBody("Error decoding response", reply.body), EmptyBody)
        ELSE Return(<<req>>, NilErr, reply.body)

\* Client.DeleteFireflyConfig
DeleteFireflyConfig(id, reply) ==
    LET req == doRequest("DeleteFireflyConfig", "DELETE", "/v1/distributedissuers/configurations/", id, NilBody)
    IN  IF reply.fail = "transport"
            THEN Return(<<req>>, Errorf("Error with delete request"), EmptyBody)
        ELSE IF reply.status # StatusOK
            THEN Return(<<req>>, ErrorfBody("Failed to delete Firefly Config; response was", reply.body),
                        EmptyBody)
        ELSE Return(<<req>>, NilErr, EmptyBody)

(***************************************************************************)
(* API client: FireflySubCAProvider (internal/tlspc/tlspc.go)              *)
(***************************************************************************)

\* The zero value of struct FireflySubCAProvider.
FireflySubCAProvider ==
    [id |-> "", name |-> "", caType |-> "", caAccountId |-> "", caProductOptionId |-> "",
     commonName |-> "", keyAlgorithm |-> "", validityPeriod |-> ""]

\* json.Marshal(ff): only id is `omitempty`.
MarshalFireflySubCAProvider(ff) ==
    [k \in DOMAIN ff \ ((IF ff.id = "" THEN {"id"} ELSE {})) |-> ff[k]]

\* Client.CreateFireflySubCAProvider
CreateFireflySubCAProvider(ff, reply) ==
    LET req == doRequest("CreateFireflySubCAProvider", "POST", "/v1/distributedissuers/subcaproviders", "", MarshalFireflySubCAProvider(ff))
    IN  IF reply.fail = "transport"
            THEN Return(<<req>>, Errorf("Error posting request"), EmptyBody)
        ELSE IF reply.fail = "read"
            THEN Return(<<req>>, Errorf("Error reading response body"), EmptyBody)
        ELSE IF ~reply.body.valid
            THEN Return(<<req>>, ErrorfBody("Error decoding response", reply.body), EmptyBody)
        ELSE IF reply.body.id = ""
            THEN Return(<<req>>, ErrorfBody("Didn't create a Firefly SubCAProvider; response was", reply.body),
                        EmptyBody)
        ELSE Return(<<req>>, NilErr, reply.body)

\* Client.GetFireflySubCAProvider
GetFireflySubCAProvider(id, reply) ==
    LET req == doRequest("GetFireflySubCAProvider", "GET", "/v1/distributedissuers/subcaproviders/", id, NilBody)
    IN  IF reply.fail = "transport"
            THEN Return(<<req>>, Errorf("Error getting Firefly SubCAProvider"), EmptyBody)
        ELSE IF reply.fail = "read"
            THEN Return(<<req>>, Errorf("Error reading response body"), EmptyBody)
        ELSE IF ~reply.body.valid
            THEN Return(<<req>>, ErrorfBody("Error decoding response", reply.body), EmptyBody)
        ELSE IF reply.body.id = ""
            THEN Return(<<req>>, ErrorfBody("Didn't find a Firefly SubCAProvider; response was", reply.body),
                        EmptyBody)
        ELSE Return(<<req>>, NilErr, reply.body)

\* Client.UpdateFireflySubCAProvider: the status must be StatusOK or StatusAccepted and the body must decode;
\* the decoded id is not looked at.
UpdateFireflySubCAProvider(ff, reply) ==
    LET req == doRequest("UpdateFireflySubCAProvider", "PATCH", "/v1/distributedissuers/subcaproviders/", ff.id,
                         MarshalFireflySubCAProvider([ff EXCEPT !.id = ""]))
    IN  IF ff.id = ""
            THEN Return(<<>>, Errorf("Empty ID"), EmptyBody)
        ELSE IF reply.fail = "transport"
            THEN Return(<<req>>, Errorf("Error patching request"), EmptyBody)
        ELSE IF reply.fail = "read"
            THEN Return(<<req>>, Errorf("Error reading response body"), EmptyBody)
        ELSE IF reply.status # StatusOK /\ reply.status # StatusAccepted
            THEN Return(<<req>>, ErrorfBody("Failed to update Firefly SubCAProvider; response was", reply.body),
                        EmptyBody)
        ELSE IF ~reply.body.valid
            THEN Return(<<req>>, ErrorfBody("Error decoding response", reply.body), EmptyBody)
        ELSE Return(<<req>>, NilErr, reply.body)

\* Client.DeleteFireflySubCAProvider
DeleteFireflySubCAProvider(id, reply) ==
    LET req == doRequest("DeleteFireflySubCAProvider", "DELETE", "/v1/distributedissuers/subcaproviders/", id, NilBody)
    IN  IF reply.fail = "transport"
            THEN Return(<<req>>, Errorf("Error with delete request"), EmptyBody)
        ELSE IF reply.status # StatusOK
            THEN Return(<<req>>, ErrorfBody("Failed to delete Firefly SubCAProvider; response was", reply.body),
                        EmptyBody)
        ELSE Return(<<req>>, NilErr, EmptyBody)

(***************************************************************************)
(* API client: FireflyPolicy (internal/tlspc/tlspc.go)                     *)
(***************************************************************************)

\* The zero values of structs KeyAlgorithm, PolicyDetails, SANs and
\* FireflyPolicySubject.
KeyAlgorithm == [allowedValues |-> {}, defaultValue |-> ""]

PolicyDetails ==
    [allowedValues |-> {}, defaultValues |-> {}, maxOccurrences |-> 0, minOccurrences |-> 0,
     type |-> ""]

SANs ==
    [dnsNames |-> PolicyDetails, ipAddresses |-> PolicyDetails, rfc822Names |-> PolicyDetails,
     uniformResourceIdentifiers |-> PolicyDetails]

FireflyPolicySubject ==
    [commonName |-> PolicyDetails, country |-> PolicyDetails, locality |-> PolicyDetails,
     organization |-> PolicyDetails, organizationalUnit |-> PolicyDetails,
     stateOrProvince |-> PolicyDetails]

\* The zero value of struct FireflyPolicy.
FireflyPolicy ==
    [id |-> "", name |-> "", extendedKeyUsages |-> {}, keyAlgorithm |-> KeyAlgorithm,
     keyUsages |-> {}, sans |-> SANs, subject |-> FireflyPolicySubject,
     validityPeriod |-> ""]

\* json.Marshal(ff): only id is `omitempty`.
MarshalFireflyPolicy(ff) ==
    [k \in DOMAIN ff \ ((IF ff.id = "" THEN {"id"} ELSE {})) |-> ff[k]]

\* Client.CreateFireflyPolicy
CreateFireflyPolicy(ff, reply) ==
    LET req == doRequest("CreateFireflyPolicy", "POST", "/v1/distributedissuers/policies", "", MarshalFireflyPolicy(ff))
    IN  IF reply.fail = "transport"
            THEN Return(<<req>>, Errorf("Error posting request"), EmptyBody)
        ELSE IF reply.fail = "read"
            THEN Return(<<req>>, Errorf("Error reading response body"), EmptyBody)
        ELSE IF ~reply.body.valid
            THEN Return(<<req>>, ErrorfBody("Error decoding response", reply.body), EmptyBody)
        ELSE IF reply.body.id = ""
            THEN Return(<<req>>, ErrorfBody("Didn't create a Firefly Policy; response was", reply.body),
                        EmptyBody)
        ELSE Return(<<req>>, NilErr, reply.body)

\* Client.GetFireflyPolicy
GetFireflyPolicy(id, reply) ==
    LET req == doRequest("GetFireflyPolicy", "GET", "/v1/distributedissuers/policies/", id, NilBody)
    IN  IF reply.fail = "transport"
            THEN Return(<<req>>, Errorf("Error getting Firefly Policy"), EmptyBody)
        ELSE IF reply.fail = "read"
            THEN Return(<<req>>, Errorf("Error reading response body"), EmptyBody)
        ELSE IF ~reply.body.valid
            THEN Return(<<req>>, ErrorfBody("Error decoding response", reply.body), EmptyBody)
        ELSE IF reply.body.id = ""
            THEN Return(<<req>>, ErrorfBody("Didn't find a Firefly Policy; response was", reply.body),
                        EmptyBody)
        ELSE Return(<<req>>, NilErr, reply.body)

\* Client.UpdateFireflyPolicy: the status must be StatusOK or StatusAccepted and the body must decode;
\* the decoded id is not looked at.
UpdateFireflyPolicy(ff, reply) ==
    LET req == doRequest("UpdateFireflyPolicy", "PATCH", "/v1/distributedissuers/policies/", ff.id,
                         MarshalFireflyPolicy([ff EXCEPT !.id = ""]))
    IN  IF ff.id = ""
            THEN Return(<<>>, Errorf("Empty ID"), EmptyBody)
        ELSE IF reply.fail = "transport"
            THEN Return(<<req>>, Errorf("Error patching request"), EmptyBody)
        ELSE IF reply.fail = "read"
            THEN Return(<<req>>, Errorf("Error reading response body"), EmptyBody)
        ELSE IF reply.status # StatusOK /\ reply.status # StatusAccepted
            THEN Return(<<req>>, ErrorfBody("Failed to update Firefly Policy; response was", reply.body),
                        EmptyBody)
        ELSE IF ~reply.body.valid
            THEN Return(<<req>>, ErrorfBody("Error decoding response", reply.body), EmptyBody)
        ELSE Return(<<req>>, NilErr, reply.body)

\* Client.DeleteFireflyPolicy
DeleteFireflyPolicy(id, reply) ==
    LET req == doRequest("DeleteFireflyPolicy", "DELETE", "/v1/distributedissuers/policies/", id, NilBody)
    IN  IF reply.fail = "transport"
            THEN Return(<<req>>, Errorf("Error with delete request"), EmptyBody)
        ELSE IF reply.status # StatusOK
            THEN Return(<<req>>, ErrorfBody("Failed to delete Firefly Policy; response was", reply.body),
                        EmptyBody)
        ELSE Return(<<req>>, NilErr, EmptyBody)

(***************************************************************************)
(* Persisted state and lifecycle operations (hosting framework)            *)
(***************************************************************************)

\* No persisted state: before Create, and after a Delete without error.
Absent == [absent |-> TRUE]

\* No lifecycle operation has run yet.
NoOp == [name |-> "none", plan |-> Absent, prior |-> Absent, failed |-> <<>>]

\* failed[i] tells whether the transport failed on the i-th request of the
\* operation.
Operation(name, plan, prior, failed) ==
    [name |-> name, plan |-> plan, prior |-> prior, failed |-> failed]

\* What a lifecycle operation leaves behind: the requests it issued, its
\* diagnostics and the persisted state.  resp.State starts as the prior state
\* (null for Create), so an operation that returns before resp.State.Set
\* leaves the prior state in place; the framework drops the state after a
\* Delete that reported no error.
Outcome(reqs, diags, st) == [calls |-> reqs, diag |-> diags, state |-> st]

\* No request has gone through a GraphQL client yet.
NoRequest == [client |-> [apikey |-> "", version |-> ""], header |-> <<>>]

\* A string attribute of a configuration: null (not declared) or a value.
StringNull == [null |-> TRUE, value |-> ""]

StringValue(v) == [null |-> FALSE, value |-> v]

\* No client handle has been constructed.
NoClient == [apikey |-> "", endpoint |-> "", version |-> ""]

\* The provider before any configuration is looked at.
NoProvider ==
    [config |-> [apikey |-> StringNull, endpoint |-> StringNull],
     env |-> [TLSPC_APIKEY |-> "", TLSPC_ENDPOINT |-> ""],
     version |-> "",
     client |-> NoClient]

\* The goroutines in which the hosting framework runs lifecycle operations
\* of independent resources side by side.
Threads == {"t1", "t2"}

\* No operation is inside GetGraphQLClient.
NoThreads ==
    [t \in Threads |-> [pc |-> "idle", client |-> [apikey |-> "", version |-> ""], rt |-> <<>>]]

\* No client call has been observed on its own.
NoCall ==
    [fn |-> "none", id |-> "", reply |-> TransportFailure,
     result |-> Return(<<>>, NilErr, EmptyBody)]

(***************************************************************************)
(* Service-account reconciler (internal/provider/service_account_resource.go) *)
(***************************************************************************)

\* serviceAccountResourceModel, as the framework decodes a plan: a null
\* optional attribute reads as "" / 0 / the empty set (ValueString,
\* ValueInt32, a nil slice).
serviceAccountResourceModel ==
    [id : {""}, name : {"k8s-cluster"}, owner : {"team1"}, scopes : {{"kubernetes-discovery"}},
     public_key : {"", "pk1"}, credential_lifetime : {0, 365},
     jwks_uri : {"", "https://k8s/jwks.json"}, issuer_url : {"", "https://issuer1"}, audience : {"", "api.venafi.eu"},
     subject : {"", "system:serviceaccount:a"}, applications : {{}, {"app1"}}]

\* The condition of the "Agent type" branch.
AgentType(plan) == plan.public_key # "" \/ plan.credential_lifetime > 0

\* The condition of the "Issuer type" branch.
IssuerType(plan) ==
    \/ plan.jwks_uri # ""
    \/ plan.issuer_url # ""
    \/ plan.audience # ""
    \/ plan.subject # ""
    \/ Cardinality(plan.applications) > 0

\* The service account Create builds, after the "Agent type" branch.
CreateAgentFields(plan) ==
    LET base == [ServiceAccount EXCEPT !.name = plan.name, !.owner = plan.owner,
                                        !.scopes = plan.scopes]
    IN  IF AgentType(plan)
            THEN [base EXCEPT !.publicKey = plan.public_key,
                              !.credentialLifetime = plan.credential_lifetime,
                              !.authenticationType = "rsaKey"]
            ELSE base

\* Mutant: the "Issuer type" branch leaves the authentication type alone.
CreateIssuerFieldsNoTag(sa, plan) ==
    IF IssuerType(plan)
        THEN [sa EXCEPT !.jwksURI = plan.jwks_uri, !.issuerURL = plan.issuer_url,
                        !.audience = plan.audience, !.subject = plan.subject,
                        !.applications = plan.applications]
        ELSE sa

\* ... and after the "Issuer type" branch (when it does not reject).
CreateIssuerFields(sa, plan) ==
    IF IssuerType(plan)
        THEN [sa EXCEPT !.jwksURI = plan.jwks_uri, !.issuerURL = plan.issuer_url,
                        !.audience = plan.audience, !.subject = plan.subject,
                        !.authenticationType = "rsaKeyFederated",
                        !.applications = plan.applications]
        ELSE sa

\* Mutant: the rejection looks at jwks_uri alone.
BothPresentJwksOnly(sa, plan) == plan.jwks_uri # "" /\ sa.authenticationType = "rsaKey"

\* The rejection inside the "Issuer type" branch.
BothPresent(sa, plan) == IssuerType(plan) /\ sa.authenticationType = "rsaKey"

\* Mutant: the `if !configured` test is missing.
ConfiguredAlways(plan) == TRUE

\* configured, at the `if !configured` test.
Configured(plan) == AgentType(plan) \/ IssuerType(plan)

\* serviceAccountResource.Create
serviceAccountResource_Create(plan, reply) ==
    LET agent == CreateAgentFields(plan)
        serviceAccount == CreateIssuerFields(agent, plan)
        created == CreateServiceAccount(serviceAccount, reply)
    IN  IF BothPresent(agent, plan)
            THEN Outcome(<<>>,
                         <<Diagnostic("Error creating serviceAccount",
                                      "invalid configuration (both public_key and jwks fields present)",
                                      NilErr)>>,
                         Absent)
        ELSE IF ~Configured(plan)
            THEN Outcome(<<>>,
                         <<Diagnostic("Error creating serviceAccount",
                                      "invalid configuration (neither public_key or jwks fields present)",
                                      NilErr)>>,
                         Absent)
        ELSE IF ~created.err.nil
            THEN Outcome(created.reqs,
                         <<Diagnostic("Error creating serviceAccount", "unexpected error",
                                      created.err)>>,
                         Absent)
        ELSE Outcome(created.reqs, <<>>, [plan EXCEPT !.id = created.value.id])

\* The service account Update builds, after the "Agent type" branch.
UpdateAgentFields(plan, st) ==
    LET base == [ServiceAccount EXCEPT !.id = st.id, !.name = plan.name,
                                        !.owner = plan.owner, !.scopes = plan.scopes]
    IN  IF AgentType(plan)
            THEN [base EXCEPT !.publicKey = plan.public_key,
                              !.credentialLifetime = plan.credential_lifetime,
                              !.authenticationType = "rsaKey"]
            ELSE base

\* ... and after the "Issuer type" branch: issuer_url and subject go into
\* the payload only when they differ from the previous state.
UpdateIssuerFields(sa, plan, st) ==
    IF IssuerType(plan)
        THEN [sa EXCEPT !.jwksURI = plan.jwks_uri,
                        !.issuerURL = IF st.issuer_url # plan.issuer_url
                                          THEN plan.issuer_url ELSE "",
                        !.audience = plan.audience,
                        !.subject = IF st.subject # plan.subject THEN plan.subject ELSE "",
                        !.authenticationType = "rsaKeyFederated",
                        !.applications = plan.applications]
        ELSE sa

\* Mutant: Update refuses a plan whose variant differs from the previous
\* state's.
serviceAccountResource_UpdateSameVariant(plan, st, reply) ==
    LET agent == UpdateAgentFields(plan, st)
        serviceAccount == UpdateIssuerFields(agent, plan, st)
        updated == UpdateServiceAccount(serviceAccount, reply)
    IN  IF BothPresent(agent, plan) \/ ~Configured(plan) \/ AgentType(plan) # AgentType(st)
            THEN Outcome(<<>>,
                         <<Diagnostic("Error creating serviceAccount", "invalid configuration",
                                      NilErr)>>,
                         st)
        ELSE IF ~updated.err.nil
            THEN Outcome(updated.reqs,
                         <<Diagnostic("Error updating serviceAccount", "unexpected error",
                                      updated.err)>>,
                         st)
        ELSE Outcome(updated.reqs, <<>>, [plan EXCEPT !.id = st.id])

\* serviceAccountResource.Update
serviceAccountResource_Update(plan, st, reply) ==
    LET agent == UpdateAgentFields(plan, st)
        serviceAccount == UpdateIssuerFields(agent, plan, st)
        updated == UpdateServiceAccount(serviceAccount, reply)
    IN  IF BothPresent(agent, plan)
            THEN Outcome(<<>>,
                         <<Diagnostic("Error creating serviceAccount",
                                      "invalid configuration (both public_key and jwks fields present)",
                                      NilErr)>>,
                         st)
        ELSE IF ~Configured(plan)
            THEN Outcome(<<>>,
                         <<Diagnostic("Error creating serviceAccount",
                                      "invalid configuration (neither public_key or jwks fields present)",
                                      NilErr)>>,
                         st)
        ELSE IF ~updated.err.nil
            THEN Outcome(updated.reqs,
                         <<Diagnostic("Error updating serviceAccount", "unexpected error",
                                      updated.err)>>,
                         st)
        ELSE Outcome(updated.reqs, <<>>, [plan EXCEPT !.id = st.id])

\* serviceAccountResource.Read: id, name, owner, public key, credential
\* lifetime and scopes are taken from the API; the federated attributes of
\* the state are left as they are.
serviceAccountResource_Read(st, reply) ==
    LET got == GetServiceAccount(st.id, reply)
        sa == got.value
    IN  IF ~got.err.nil
            THEN Outcome(got.reqs,
                         <<Diagnostic("Error Reading Service Account",
                                      "Could not read service account ID", got.err)>>,
                         st)
        ELSE Outcome(got.reqs, <<>>,
                     [st EXCEPT !.id = sa.id, !.name = sa.attrs.name,
                                !.owner = sa.attrs.owner,
                                !.public_key = sa.attrs.publicKey,
                                !.credential_lifetime = sa.attrs.credentialLifetime,
                                !.scopes = sa.attrs.scopes])

\* serviceAccountResource.Delete
serviceAccountResource_Delete(st, reply) ==
    LET deleted == DeleteServiceAccount(st.id, reply)
    IN  IF ~deleted.err.nil
            THEN Outcome(deleted.reqs,
                         <<Diagnostic("Error Deleting Service Account",
                                      "Could not delete Service Account ID", deleted.err)>>,
                         st)
        ELSE Outcome(deleted.reqs, <<>>, Absent)

\* Answers of the API to a write request, one or more for every way a client
\* function can end.
WriteReplies ==
    {TransportFailure, ReadFailure(StatusOK),
     Response(StatusOK, JSONBody("id1", <<"id1">>, NoAttrs)),
     Response(201, JSONBody("id2", <<"id2">>, NoAttrs)),
     Response(StatusOK, JSONBody("", <<"">>, NoAttrs)),
     Response(StatusNoContent, EmptyBody),
     Response(500, EmptyBody)}

(***************************************************************************)
(* Service-account claims                                                  *)
(***************************************************************************)

\* A planned configuration populates a key-based field.
KeyPopulated(plan) == plan.public_key # "" \/ plan.credential_lifetime > 0

\* A planned configuration populates a federated field.
FederatedPopulated(plan) ==
    \/ plan.jwks_uri # ""
    \/ plan.issuer_url # ""
    \/ plan.audience # ""
    \/ plan.subject # ""
    \/ plan.applications # {}

\* A service-account Create or Update has just run.
SAWrite == kind = "service_account" /\ op.name \in {"Create", "Update"}

\* The value the API decodes for key k of a JSON object (absent: zero).
Field(body, k, zero) == IF k \in DOMAIN body THEN body[k] ELSE zero

FederatedKeys == {"jwksURI", "issuerURL", "audience", "subject", "applications"}

\* C1: a service-account Create or Update whose plan populates both a
\* key-based and a federated field ends with the "both present" configuration
\* error, has issued no request and leaves the persisted state as it was.
C1_BothShapesRejected ==
    (SAWrite /\ KeyPopulated(op.plan) /\ FederatedPopulated(op.plan))
        => /\ Len(diag) = 1
           /\ diag[1].detail = "invalid configuration (both public_key and jwks fields present)"
           /\ calls = <<>>
           /\ state = op.prior

C1_Witness ==
    /\ SAWrite
    /\ op.name = "Update"
    /\ op.plan.public_key = ""
    /\ op.plan.credential_lifetime > 0
    /\ op.plan.jwks_uri = ""
    /\ op.plan.subject # ""
    /\ HasError(diag)

\* C2: a service-account Create or Update whose plan populates neither a
\* key-based nor a federated field ends with the "neither present" error,
\* has issued no request and leaves the persisted state as it was.
C2_NeitherShapeRejected ==
    (SAWrite /\ ~KeyPopulated(op.plan) /\ ~FederatedPopulated(op.plan))
        => /\ Len(diag) = 1
           /\ diag[1].detail = "invalid configuration (neither public_key or jwks fields present)"
           /\ calls = <<>>
           /\ state = op.prior

C2_Witness ==
    /\ SAWrite
    /\ op.name = "Update"
    /\ ~KeyPopulated(op.plan)
    /\ ~FederatedPopulated(op.plan)
    /\ state # Absent
    /\ HasError(diag)

\* C3: a service-account Create or Update whose plan populates key-based
\* fields only sends exactly one request; its JSON body has
\* authenticationType "rsaKey", the planned public key and credential
\* lifetime, and none of the federated keys.
C3_KeyOnlyRequest ==
    (SAWrite /\ KeyPopulated(op.plan) /\ ~FederatedPopulated(op.plan))
        => /\ Len(calls) = 1
           /\ Field(calls[1].body, "authenticationType", "") = "rsaKey"
           /\ Field(calls[1].body, "publicKey", "") = op.plan.public_key
           /\ Field(calls[1].body, "credentialLifetime", 0) = op.plan.credential_lifetime
           /\ DOMAIN calls[1].body \cap FederatedKeys = {}

C3_Witness ==
    /\ SAWrite
    /\ op.plan.public_key # ""
    /\ op.plan.credential_lifetime = 0
    /\ ~FederatedPopulated(op.plan)
    /\ Len(calls) = 1
    /\ calls[1].method = "PATCH"

\* C4: a service-account Create or Update whose plan populates federated
\* fields only sends exactly one request; its JSON body has
\* authenticationType "rsaKeyFederated" and neither a public key nor a
\* credential lifetime.
C4_FederatedOnlyRequest ==
    (SAWrite /\ FederatedPopulated(op.plan) /\ ~KeyPopulated(op.plan))
        => /\ Len(calls) = 1
           /\ Field(calls[1].body, "authenticationType", "") = "rsaKeyFederated"
           /\ DOMAIN calls[1].body \cap {"publicKey", "credentialLifetime"} = {}

C4_Witness ==
    /\ SAWrite
    /\ op.name = "Create"
    /\ op.plan.applications # {}
    /\ op.plan.jwks_uri = ""
    /\ ~KeyPopulated(op.plan)
    /\ Len(calls) = 1
    /\ calls[1].method = "POST"

\* The decision a plan alone stands for.
PlanDecision(plan) ==
    IF KeyPopulated(plan) /\ FederatedPopulated(plan) THEN "rejected"
    ELSE IF ~KeyPopulated(plan) /\ ~FederatedPopulated(plan) THEN "rejected"
    ELSE IF KeyPopulated(plan) THEN "rsaKey"
    ELSE "rsaKeyFederated"

\* The decision the operation that just ran took: rejected before any
\* request, or the authentication type of the request it sent.
ObservedDecision ==
    IF calls = <<>> THEN "rejected" ELSE Field(calls[1].body, "authenticationType", "")

\* C5: the accept/reject decision of a service-account Update and the
\* authenticationType it sends are a function of the plan alone: whatever
\* the previous state, they are the ones the plan stands for, so two Updates
\* with the same plan and different previous states decide alike.
C5_UpdateClassifiesFromPlan ==
    (kind = "service_account" /\ op.name = "Update")
        => ObservedDecision = PlanDecision(op.plan)

\* An Update from a key-based previous state to a federated plan, accepted.
C5_Witness ==
    /\ kind = "service_account"
    /\ op.name = "Update"
    /\ KeyPopulated(op.prior)
    /\ ~FederatedPopulated(op.prior)
    /\ FederatedPopulated(op.plan)
    /\ ~KeyPopulated(op.plan)
    /\ ObservedDecision = "rsaKeyFederated"
    /\ diag = <<>>
    /\ state = [op.plan EXCEPT !.id = op.prior.id]

(***************************************************************************)
(* Team reconciler (internal/provider/team_resource.go)                    *)
(***************************************************************************)

\* User ids that can own a team.
OwnerIds == {"A", "B", "C", "D"}

\* The largest owner set of a plan.
MaxOwners == 3

OwnerSets == {o \in SUBSET OwnerIds : Cardinality(o) <= MaxOwners}

\* teamResourceModel, as planned (id is computed).
teamResourceModel ==
    [id : {""}, name : {"team1", "team2"}, role : {"PLATFORM_ADMIN", "GUEST"}, owners : OwnerSets]

\* teamResource.Create
teamResource_Create(plan, reply) ==
    LET team == [Team EXCEPT !.name = plan.name, !.role = plan.role,
                             !.owners = plan.owners, !.members = {}]
        r == CreateTeam(team, reply)
    IN  IF ~r.err.nil
            THEN Outcome(r.reqs,
                         <<Diagnostic("Error creating team",
                                      "Could not create team, unexpected error", r.err)>>,
                         Absent)
        ELSE Outcome(r.reqs, <<>>, [plan EXCEPT !.id = r.value.id])

\* teamResource.Read: the method body is empty; the response keeps the state
\* the framework put there (the current one).
teamResource_Read(st) == Outcome(<<>>, <<>>, st)

\* teamResource.Update: the method body is empty; no client function is
\* called and the response keeps the previous state the framework put there.
teamResource_Update(plan, st) == Outcome(<<>>, <<>>, st)

\* teamResource.Delete: the method body is empty; without an error the
\* framework drops the state.
teamResource_Delete(st) == Outcome(<<>>, <<>>, Absent)

(***************************************************************************)
(* Team claims                                                             *)
(***************************************************************************)

\* The requests of the last operation issued by client function fn.
CallsOf(fn) == {i \in 1..Len(calls) : calls[i].fn = fn}

\* The owner-diff rule for one direction: one call carrying exactly `diff`
\* when it is non-empty, no call when it is empty.
OneBatchedCall(fn, diff) ==
    IF diff = {}
        THEN CallsOf(fn) = {}
    ELSE /\ Cardinality(CallsOf(fn)) = 1
         /\ \A i \in CallsOf(fn) : calls[i].body.owners = diff

\* C6: a team Update with previous owner set P and planned owner set Q issues
\* at most one remove-owners call, with payload P \ Q, and at most one
\* add-owners call, with payload Q \ P; a call with an empty payload is not
\* issued.  (P = {A,B,C}, Q = {B,C,D}: one remove {A} and one add {D}.)
C6_OwnerDiffCalls ==
    (kind = "team" /\ op.name = "Update") =>
        /\ OneBatchedCall("RemoveTeamOwners", op.prior.owners \ op.plan.owners)
        /\ OneBatchedCall("AddTeamOwners", op.plan.owners \ op.prior.owners)

\* C7: a team Update issues the base update call exactly when the name or
\* the role differs between the previous state and the plan.
C7_BaseUpdateCall ==
    (kind = "team" /\ op.name = "Update") =>
        (CallsOf("UpdateTeam") # {} <=>
            (op.plan.name # op.prior.name \/ op.plan.role # op.prior.role))

(***************************************************************************)
(* The API client on its own: one call of a client function at a time,     *)
(* against every answer the API can give.                                  *)
(***************************************************************************)

CreateFns ==
    {"CreateTeam", "CreateServiceAccount", "CreatePlugin", "CreateCertificateTemplate",
     "CreateApplication", "CreateFireflyConfig", "CreateFireflySubCAProvider",
     "CreateFireflyPolicy"}

UpdateFns ==
    {"UpdateTeam", "AddTeamOwners", "RemoveTeamOwners", "UpdateServiceAccount", "UpdatePlugin",
     "UpdateCertificateTemplate", "UpdateApplication", "UpdateFireflyConfig",
     "UpdateFireflySubCAProvider", "UpdateFireflyPolicy"}

GetFns ==
    {"GetTeam", "GetServiceAccount", "GetPlugin", "GetCertificateTemplate", "GetApplication",
     "GetFireflyConfig", "GetFireflySubCAProvider", "GetFireflyPolicy"}

DeleteFns ==
    {"DeleteTeam", "DeleteServiceAccount", "DeletePlugin", "DeleteCertificateTemplate",
     "DeleteApplication", "DeleteFireflyConfig", "DeleteFireflySubCAProvider",
     "DeleteFireflyPolicy"}

\* Element lists of a wrapped response ({"plugins": [...]} and the like), by
\* the ids of the elements.
ItemLists == {<<>>, <<"">>, <<"id1">>, <<"id1", "id2">>}

\* Response bodies: not JSON, or JSON with a top-level id and an element list.
ClientBodies ==
    {EmptyBody} \cup {JSONBody(id, items, NoAttrs) : id \in IdOrEmpty, items \in ItemLists}

\* Every way a request can end.
ClientReplies ==
    {TransportFailure}
        \cup {ReadFailure(st) : st \in Statuses}
        \cup {Response(st, b) : st \in Statuses, b \in ClientBodies}

CallCreate(fn, reply) ==
    CASE fn = "CreateTeam" -> CreateTeam([Team EXCEPT !.name = "n"], reply)
      [] fn = "CreateServiceAccount" ->
             CreateServiceAccount([ServiceAccount EXCEPT !.name = "n"], reply)
      [] fn = "CreatePlugin" -> CreatePlugin([Plugin EXCEPT !.pluginType = "CA"], reply)
      [] fn = "CreateCertificateTemplate" ->
             CreateCertificateTemplate([CertificateTemplate EXCEPT !.name = "n"], reply)
      [] fn = "CreateApplication" -> CreateApplication([Application EXCEPT !.name = "n"], reply)
      [] fn = "CreateFireflyConfig" ->
             CreateFireflyConfig([FireflyConfig EXCEPT !.name = "n"], reply)
      [] fn = "CreateFireflySubCAProvider" ->
             CreateFireflySubCAProvider([FireflySubCAProvider EXCEPT !.name = "n"], reply)
      [] fn = "CreateFireflyPolicy" ->
             CreateFireflyPolicy([FireflyPolicy EXCEPT !.name = "n"], reply)

CallUpdate(fn, id, reply) ==
    CASE fn = "UpdateTeam" -> UpdateTeam([Team EXCEPT !.id = id, !.name = "n"], reply)
      [] fn = "AddTeamOwners" -> AddTeamOwners(id, {"A"}, reply)
      [] fn = "RemoveTeamOwners" -> RemoveTeamOwners(id, {"A"}, reply)
      [] fn = "UpdateServiceAccount" ->
             UpdateServiceAccount([ServiceAccount EXCEPT !.id = id, !.name = "n"], reply)
      [] fn = "UpdatePlugin" -> UpdatePlugin([Plugin EXCEPT !.id = id], reply)
      [] fn = "UpdateCertificateTemplate" ->
             UpdateCertificateTemplate([CertificateTemplate EXCEPT !.id = id], reply)
      [] fn = "UpdateApplication" -> UpdateApplication([Application EXCEPT !.id = id], reply)
      [] fn = "UpdateFireflyConfig" ->
             UpdateFireflyConfig([FireflyConfig EXCEPT !.id = id], reply)
      [] fn = "UpdateFireflySubCAProvider" ->
             UpdateFireflySubCAProvider([FireflySubCAProvider EXCEPT !.id = id], reply)
      [] fn = "UpdateFireflyPolicy" ->
             UpdateFireflyPolicy([FireflyPolicy EXCEPT !.id = id], reply)

CallGet(fn, id, reply) ==
    CASE fn = "GetTeam" -> GetTeam(id, reply)
      [] fn = "GetServiceAccount" -> GetServiceAccount(id, reply)
      [] fn = "GetPlugin" -> GetPlugin(id, reply)
      [] fn = "GetCertificateTemplate" -> GetCertificateTemplate(id, reply)
      [] fn = "GetApplication" -> GetApplication(id, reply)
      [] fn = "GetFireflyConfig" -> GetFireflyConfig(id, reply)
      [] fn = "GetFireflySubCAProvider" -> GetFireflySubCAProvider(id, reply)
      [] fn = "GetFireflyPolicy" -> GetFireflyPolicy(id, reply)

CallDelete(fn, id, reply) ==
    CASE fn = "DeleteTeam" -> DeleteTeam(id, reply)
      [] fn = "DeleteServiceAccount" -> DeleteServiceAccount(id, reply)
      [] fn = "DeletePlugin" -> DeletePlugin(id, reply)
      [] fn = "DeleteCertificateTemplate" -> DeleteCertificateTemplate(id, reply)
      [] fn = "DeleteApplication" -> DeleteApplication(id, reply)
      [] fn = "DeleteFireflyConfig" -> DeleteFireflyConfig(id, reply)
      [] fn = "DeleteFireflySubCAProvider" -> DeleteFireflySubCAProvider(id, reply)
      [] fn = "DeleteFireflyPolicy" -> DeleteFireflyPolicy(id, reply)

Call(fn, id, reply, result) ==
    /\ ret = NoCall
    /\ ret' = [fn |-> fn, id |-> id, reply |-> reply, result |-> result]
    /\ UNCHANGED <<kind, state, op, calls, diag, transport, sent, provider, threads>>

ClientCreate ==
    \E fn \in CreateFns, reply \in ClientReplies : Call(fn, "", reply, CallCreate(fn, reply))

ClientUpdate ==
    \E fn \in UpdateFns, id \in IdOrEmpty, reply \in ClientReplies :
        Call(fn, id, reply, CallUpdate(fn, id, reply))

ClientGet ==
    \E fn \in GetFns, id \in Ids, reply \in ClientReplies :
        Call(fn, id, reply, CallGet(fn, id, reply))

ClientDelete ==
    \E fn \in DeleteFns, id \in Ids, reply \in ClientReplies :
        Call(fn, id, reply, CallDelete(fn, id, reply))

\* The caller has consumed the result.
ClientReturn ==
    /\ ret # NoCall
    /\ ret' = NoCall
    /\ UNCHANGED <<kind, state, op, calls, diag, transport, sent, provider, threads>>

InitClient ==
    /\ kind = "client"
    /\ state = Absent
    /\ op = NoOp
    /\ calls = <<>>
    /\ diag = <<>>
    /\ ret = NoCall
    /\ transport = <<>>
    /\ sent = NoRequest
    /\ provider = NoProvider
    /\ threads = NoThreads


(***************************************************************************)
(* API client claims                                                       *)
(***************************************************************************)

\* The create operations whose response wraps the created object in a list.
WrappedCreateFns == {"CreatePlugin", "CreateCertificateTemplate", "CreateApplication"}

\* A response arrived, was read and decoded as JSON.
Decoded == ret.reply.fail = "none" /\ ret.reply.body.valid

\* The decoded response carries an identifier and it is the empty string.
DecodedIdEmpty ==
    /\ Decoded
    /\ IF ret.fn \in WrappedCreateFns
           THEN Len(ret.reply.body.items) = 1 /\ ret.reply.body.items[1] = ""
       ELSE ret.reply.body.id = ""

\* The call failed with an error whose text holds the raw response body.
ErrorWithRawBody ==
    /\ ~ret.result.err.nil
    /\ ret.result.err.hasBody
    /\ ret.result.err.body = ret.reply.body

\* C9: for every create operation of the client and every HTTP status code,
\* an empty decoded identifier makes the operation return an error whose text
\* contains the raw response body; no create operation returns success with
\* an empty identifier.
C9_CreateEmptyIdIsError ==
    ret.fn \in CreateFns =>
        /\ DecodedIdEmpty => ErrorWithRawBody
        /\ ret.result.err.nil => ret.result.value.id # ""

C9_Witness ==
    /\ ret.fn = "CreateApplication"
    /\ ret.reply.status = StatusOK
    /\ DecodedIdEmpty
    /\ ErrorWithRawBody

\* The operations that look at the decoded identifier.
IdCheckedFns == CreateFns \cup {"UpdateTeam", "AddTeamOwners", "RemoveTeamOwners"}

\* The updates that decode the response without looking at its identifier.
DecodedUpdateFns ==
    {"UpdateCertificateTemplate", "UpdateApplication", "UpdateFireflyConfig",
     "UpdateFireflySubCAProvider", "UpdateFireflyPolicy"}

\* The call got as far as sending its request and the API answered.
Answered == Len(ret.result.reqs) = 1 /\ ret.reply.fail # "transport"

C11_DeleteTeamStatus ==
    ret.fn = "DeleteTeam" =>
        /\ ret.result.err.nil <=>
               /\ ret.reply.fail # "transport"
               /\ ret.reply.status \in {StatusOK, StatusNoContent}
        /\ (ret.reply.fail # "transport"
                /\ ret.reply.status \notin {StatusOK, StatusNoContent}) =>
               /\ ret.result.err.hasBody
               /\ ret.result.err.body = ret.reply.body
        /\ ret.reply.fail = "transport" => ~ret.result.err.nil

\* DeleteTeam was answered 200, not the documented 204, and returned nil.
C11_Witness ==
    /\ ret.fn = "DeleteTeam"
    /\ ret.reply.fail = "none"
    /\ ret.reply.status = StatusOK
    /\ ret.result.err.nil
    /\ Len(ret.result.reqs) = 1

(***************************************************************************)
(* Registry-account reconciler                                             *)
(* (internal/provider/registry_account_resource.go)                        *)
(***************************************************************************)

\* A decoded field of a response; a field the response does not carry decodes
\* to the zero value.
Attr(body, k, zero) == IF k \in DOMAIN body.attrs THEN body.attrs[k] ELSE zero

\* registryAccountResourceModel, as planned (id and the oci_* attributes are
\* computed).
registryAccountResourceModel ==
    [id : {""}, name : {"reg1", "reg2"}, owner : {"team1"}, scopes : {{"oci-registry-cm"}},
     oci_account_name : {""}, oci_registry_token : {""},
     credential_lifetime : {30, 365}]

\* Answers of the API to POST /v1/serviceaccounts for a registry account.
RegistryCreateReplies ==
    WriteReplies
        \cup {Response(201, JSONBody("id1", <<>>,
                                     [kind |-> "serviceaccount", ociAccountName |-> "oci-acct",
                                      ociRegistryToken |-> "oci-token"]))}

\* registryAccountResource.Create
registryAccountResource_Create(plan, reply) ==
    LET registryAccount ==
            [ServiceAccount EXCEPT !.name = plan.name, !.owner = plan.owner,
                                   !.scopes = plan.scopes,
                                   !.credentialLifetime = plan.credential_lifetime,
                                   !.authenticationType = "ociToken"]
        created == CreateServiceAccount(registryAccount, reply)
    IN  IF ~created.err.nil
            THEN Outcome(created.reqs,
                         <<Diagnostic("Error creating registryAccount", "unexpected error",
                                      created.err)>>,
                         Absent)
        ELSE Outcome(created.reqs, <<>>,
                     [plan EXCEPT !.id = created.value.id,
                                  !.oci_account_name = Attr(created.value, "ociAccountName", ""),
                                  !.oci_registry_token =
                                      Attr(created.value, "ociRegistryToken", "")])

\* Mutant: Read refreshes the oci_* attributes from the answer as well.
registryAccountResource_ReadRefreshesCredentials(st, reply) ==
    LET got == GetServiceAccount(st.id, reply)
        sa == got.value
    IN  IF ~got.err.nil
            THEN Outcome(got.reqs,
                         <<Diagnostic("Error Reading Registry Account",
                                      "Could not read registryaccount ID", got.err)>>,
                         st)
        ELSE Outcome(got.reqs, <<>>,
                     [st EXCEPT !.id = sa.id, !.name = Attr(sa, "name", ""),
                                !.owner = Attr(sa, "owner", ""),
                                !.scopes = Attr(sa, "scopes", {}),
                                !.oci_account_name = Attr(sa, "ociAccountName", ""),
                                !.oci_registry_token = Attr(sa, "ociRegistryToken", "")])

\* registryAccountResource.Read: id, name, owner and scopes come from the API.
registryAccountResource_Read(st, reply) ==
    LET got == GetServiceAccount(st.id, reply)
        sa == got.value
    IN  IF ~got.err.nil
            THEN Outcome(got.reqs,
                         <<Diagnostic("Error Reading Registry Account",
                                      "Could not read registryaccount ID", got.err)>>,
                         st)
        ELSE Outcome(got.reqs, <<>>,
                     [st EXCEPT !.id = sa.id, !.name = Attr(sa, "name", ""),
                                !.owner = Attr(sa, "owner", ""),
                                !.scopes = Attr(sa, "scopes", {})])

\* Mutant: the update call is skipped when the plan changes nothing.
registryAccountResource_UpdateSkipsUnchanged(plan, st, reply) ==
    LET registryAccount ==
            [ServiceAccount EXCEPT !.id = st.id, !.name = plan.name, !.owner = plan.owner,
                                   !.scopes = plan.scopes,
                                   !.credentialLifetime = plan.credential_lifetime,
                                   !.authenticationType = "ociToken"]
        updated == UpdateServiceAccount(registryAccount, reply)
        next == [plan EXCEPT !.id = st.id, !.oci_account_name = st.oci_account_name,
                             !.oci_registry_token = st.oci_registry_token]
    IN  IF next = st
            THEN Outcome(<<>>, <<>>, next)
        ELSE IF ~updated.err.nil
            THEN Outcome(updated.reqs,
                         <<Diagnostic("Error updating registryAccount", "unexpected error",
                                      updated.err)>>,
                         st)
        ELSE Outcome(updated.reqs, <<>>, next)

\* registryAccountResource.Update: always calls UpdateServiceAccount; the
\* id and the oci_* attributes are carried over from the state.
registryAccountResource_Update(plan, st, reply) ==
    LET registryAccount ==
            [ServiceAccount EXCEPT !.id = st.id, !.name = plan.name, !.owner = plan.owner,
                                   !.scopes = plan.scopes,
                                   !.credentialLifetime = plan.credential_lifetime,
                                   !.authenticationType = "ociToken"]
        updated == UpdateServiceAccount(registryAccount, reply)
    IN  IF ~updated.err.nil
            THEN Outcome(updated.reqs,
                         <<Diagnostic("Error updating registryAccount", "unexpected error",
                                      updated.err)>>,
                         st)
        ELSE Outcome(updated.reqs, <<>>,
                     [plan EXCEPT !.id = st.id, !.oci_account_name = st.oci_account_name,
                                  !.oci_registry_token = st.oci_registry_token])

\* registryAccountResource.Delete
registryAccountResource_Delete(st, reply) ==
    LET deleted == DeleteServiceAccount(st.id, reply)
    IN  IF ~deleted.err.nil
            THEN Outcome(deleted.reqs,
                         <<Diagnostic("Error Deleting Service Account",
                                      "Could not delete Service Account ID", deleted.err)>>,
                         st)
        ELSE Outcome(deleted.reqs, <<>>, Absent)

(***************************************************************************)
(* Plugin reconciler (pluginResource)                                      *)
(***************************************************************************)

\* json.Unmarshal([]byte(text), &manifest): the decoded document, or an error.
UnmarshalManifest(text) ==
    CASE text \in {"{}", "{ }"} -> [ok |-> TRUE, value |-> "object()"]
      [] text = "{\"a\":1}" -> [ok |-> TRUE, value |-> "object(a:1)"]
      [] OTHER -> [ok |-> FALSE, value |-> ""]

\* json.Marshal(manifest): the compact text of a decoded document.
MarshalManifest(value) ==
    CASE value = "object()" -> "{}"
      [] value = "object(a:1)" -> "{\"a\":1}"
      [] OTHER -> "null"

\* pluginResourceModel, as planned for Create (id is computed and kept from
\* the state on later plans).
pluginResourceModel == [id : {""}, type : {"CA"}, manifest : {"{}", "{ }", "{\"a\":1}", "not-json"}]

\* pluginResource.Create
pluginResource_Create(plan, reply) ==
    LET manifest == UnmarshalManifest(plan.manifest)
        plugin == [Plugin EXCEPT !.id = plan.id, !.pluginType = plan.type,
                                 !.manifest = manifest.value]
        created == CreatePlugin(plugin, reply)
    IN  IF ~manifest.ok
            THEN Outcome(<<>>,
                         <<Diagnostic("Error creating plugin", "invalid manifest", NilErr)>>,
                         Absent)
        ELSE IF ~created.err.nil
            THEN Outcome(created.reqs,
                         <<Diagnostic("Error creating plugin", "unexpected error",
                                      created.err)>>,
                         Absent)
        ELSE Outcome(created.reqs, <<>>, [plan EXCEPT !.id = created.value.id])

\* pluginResource.Read
pluginResource_Read(st, reply) ==
    LET got == GetPlugin(st.id, reply)
        plugin == got.value
    IN  IF ~got.err.nil
            THEN Outcome(got.reqs,
                         <<Diagnostic("Error Reading Plugin", "Could not read plugin ID",
                                      got.err)>>,
                         st)
        ELSE Outcome(got.reqs, <<>>,
                     [st EXCEPT !.id = plugin.id, !.type = Attr(plugin, "pluginType", ""),
                                !.manifest = MarshalManifest(Attr(plugin, "manifest", "null"))])

\* Mutant: the plan is saved even when UpdatePlugin returned an error.
pluginResource_UpdateSavesOnError(plan, st, reply) ==
    LET manifest == UnmarshalManifest(plan.manifest)
        plugin == [Plugin EXCEPT !.id = st.id, !.pluginType = plan.type,
                                 !.manifest = manifest.value]
        updated == UpdatePlugin(plugin, reply)
    IN  IF ~manifest.ok
            THEN Outcome(<<>>,
                         <<Diagnostic("Error Reading Plugin", "Could not read plugin manifest",
                                      NilErr)>>,
                         st)
        ELSE IF ~updated.err.nil
            THEN Outcome(updated.reqs,
                         <<Diagnostic("Error updating Plugin", "Could not update plugin",
                                      updated.err)>>,
                         [plan EXCEPT !.id = st.id])
        ELSE Outcome(updated.reqs, <<>>, [plan EXCEPT !.id = st.id])

\* pluginResource.Update: always calls UpdatePlugin once the manifest decodes.
pluginResource_Update(plan, st, reply) ==
    LET manifest == UnmarshalManifest(plan.manifest)
        plugin == [Plugin EXCEPT !.id = st.id, !.pluginType = plan.type,
                                 !.manifest = manifest.value]
        updated == UpdatePlugin(plugin, reply)
    IN  IF ~manifest.ok
            THEN Outcome(<<>>,
                         <<Diagnostic("Error Reading Plugin", "Could not read plugin manifest",
                                      NilErr)>>,
                         st)
        ELSE IF ~updated.err.nil
            THEN Outcome(updated.reqs,
                         <<Diagnostic("Error updating Plugin", "Could not update plugin",
                                      updated.err)>>,
                         st)
        ELSE Outcome(updated.reqs, <<>>, [plan EXCEPT !.id = st.id])

\* pluginResource.Delete
pluginResource_Delete(st, reply) ==
    LET deleted == DeletePlugin(st.id, reply)
    IN  IF ~deleted.err.nil
            THEN Outcome(deleted.reqs,
                         <<Diagnostic("Error Deleting Plugin", "Could not delete plugin ID",
                                      deleted.err)>>,
                         st)
        ELSE Outcome(deleted.reqs, <<>>, Absent)

\* The plan of an Update: a computed attribute marked UseStateForUnknown is
\* planned with its value in the state.
UseStateForUnknown(plan, st, attrs) ==
    [k \in DOMAIN plan |-> IF k \in attrs THEN st[k] ELSE plan[k]]

(***************************************************************************)
(* Certificate-template reconciler (certificateTemplateResource)           *)
(***************************************************************************)

\* A CA product option of a CA account listing.
CAProductOption(id, name) ==
    [id |-> id, productName |-> name,
     productTemplate |-> [CAProductTemplate EXCEPT !.certificateAuthority = "BUILTIN",
                                                   !.productName = name]]

\* Client.GetCAProductOptionByID: the first option of the listing with the
\* given id.
GetCAProductOptionByID(caKind, option_id, reply) ==
    LET req == doRequest("GetCAProductOptionByID", "GET",
                         "/v1/certificateauthorities/" \o caKind \o "/accounts", "", NilBody)
        opts == Attr(reply.body, "options", <<>>)
        hits == {i \in 1..Len(opts) : opts[i].id = option_id}
    IN  IF reply.fail = "transport"
            THEN Return(<<req>>, Errorf("Error getting ca product"), EmptyBody)
        ELSE IF reply.fail = "read"
            THEN Return(<<req>>, Errorf("Error reading response body"), EmptyBody)
        ELSE IF ~reply.body.valid
            THEN Return(<<req>>, ErrorfBody("Error decoding response", reply.body), EmptyBody)
        ELSE IF hits = {}
            THEN Return(<<req>>, Errorf("Specified CA product option not found."), EmptyBody)
        ELSE Return(<<req>>, NilErr, opts[CHOOSE i \in hits : \A j \in hits : i <= j])

\* Answers of the API to GET /v1/certificateauthorities/{kind}/accounts.
CAAccountsReplies ==
    {TransportFailure, Response(StatusOK, EmptyBody)}
        \cup {Response(StatusOK, JSONBody("", <<>>, [kind |-> "caaccounts", options |-> o])) :
                  o \in {<<>>, <<CAProductOption("opt1", "Default Product")>>,
                         <<CAProductOption("opt2", "Other"),
                           CAProductOption("opt1", "Default Product")>>}}

\* certificateTemplateResourceModel, as planned for Create.
certificateTemplateResourceModel ==
    [id : {""}, name : {"tmpl1", "tmpl2"}, ca_type : {"BUILTIN"}, ca_product_id : {"opt1", "opt2"},
     key_reuse : BOOLEAN]

\* The tlspc.CertificateTemplate both Create and Update build from the plan
\* and the product option.
TemplateFromPlan(id, plan, pt) ==
    [CertificateTemplate EXCEPT
        !.id = id, !.name = plan.name, !.certificateAuthority = plan.ca_type,
        !.certificateAuthorityProductOptionId = plan.ca_product_id,
        !.product = pt.productTemplate, !.keyReuse = plan.key_reuse,
        !.keyTypes = {[keyType |-> "RSA", keyLengths |-> {2048, 3072, 4096}]},
        !.sanRegexes = {".*"}, !.subjectCNRegexes = {".*"}, !.subjectCValues = {".*"},
        !.subjectLRegexes = {".*"}, !.subjectORegexes = {".*"}, !.subjectOURegexes = {".*"},
        !.subjectSTRegexes = {".*"}]

\* certificateTemplateResource.Create
certificateTemplateResource_Create(plan, lookup, reply) ==
    LET pt == GetCAProductOptionByID(plan.ca_type, plan.ca_product_id, lookup)
        created == CreateCertificateTemplate(TemplateFromPlan("", plan, pt.value), reply)
    IN  IF ~pt.err.nil
            THEN Outcome(pt.reqs,
                         <<Diagnostic("Error creating certificate template",
                                      "CA Product ID not found", pt.err)>>,
                         Absent)
        ELSE IF ~created.err.nil
            THEN Outcome(pt.reqs \o created.reqs,
                         <<Diagnostic("Error creating certificate template", "unexpected error",
                                      created.err)>>,
                         Absent)
        ELSE Outcome(pt.reqs \o created.reqs, <<>>, [plan EXCEPT !.id = created.value.id])

\* certificateTemplateResource.Read: the name is not refreshed.
certificateTemplateResource_Read(st, reply) ==
    LET got == GetCertificateTemplate(st.id, reply)
        ct == got.value
    IN  IF ~got.err.nil
            THEN Outcome(got.reqs,
                         <<Diagnostic("Error Reading Certificate Template",
                                      "Could not read Certificate Template ID", got.err)>>,
                         st)
        ELSE Outcome(got.reqs, <<>>,
                     [st EXCEPT !.id = ct.id,
                                !.ca_type = Attr(ct, "certificateAuthority", ""),
                                !.ca_product_id =
                                    Attr(ct, "certificateAuthorityProductOptionId", ""),
                                !.key_reuse = Attr(ct, "keyReuse", FALSE)])

\* certificateTemplateResource.Update: looks the product option up, then
\* always calls UpdateCertificateTemplate; the id of the new state is the one
\* the response carries.
certificateTemplateResource_Update(plan, st, lookup, reply) ==
    LET pt == GetCAProductOptionByID(plan.ca_type, plan.ca_product_id, lookup)
        updated == UpdateCertificateTemplate(TemplateFromPlan(st.id, plan, pt.value), reply)
    IN  IF ~pt.err.nil
            THEN Outcome(pt.reqs,
                         <<Diagnostic("Error creating certificate template",
                                      "CA Product ID not found", pt.err)>>,
                         st)
        ELSE IF ~updated.err.nil
            THEN Outcome(pt.reqs \o updated.reqs,
                         <<Diagnostic("Error updating certificate template", "unexpected error",
                                      updated.err)>>,
                         st)
        ELSE Outcome(pt.reqs \o updated.reqs, <<>>, [plan EXCEPT !.id = updated.value.id])

\* certificateTemplateResource.Delete
certificateTemplateResource_Delete(st, reply) ==
    LET deleted == DeleteCertificateTemplate(st.id, reply)
    IN  IF ~deleted.err.nil
            THEN Outcome(deleted.reqs,
                         <<Diagnostic("Error Deleting Certificate Template",
                                      "Could not delete Certificate Template ID", deleted.err)>>,
                         st)
        ELSE Outcome(deleted.reqs, <<>>, Absent)

(***************************************************************************)
(* Application reconciler (internal/provider/application_resource.go)      *)
(***************************************************************************)

\* types.String.String() of a known value: the text between double quotes.
StringValueString(v) == <<"\"", v, "\"">>

\* strings.Trim(s, `"`) of such a text whose value neither starts nor ends
\* with a quote: the value.
TrimQuotes(s) == s[2]

\* Owner maps of a plan: a user, a team, an unsupported type, an empty owner
\* id, and a map without the "type" key.
OwnerMaps ==
    {[type |-> "USER", owner |-> "u1"], [type |-> "TEAM", owner |-> "t1"],
     [type |-> "ROBOT", owner |-> "u1"], [type |-> "USER", owner |-> ""],
     [owner |-> "u1"]}

\* The owners attribute: no owner, one owner, or two different owners.
OwnerLists ==
    {<<>>} \cup {<<m>> : m \in OwnerMaps}
           \cup {o \in OwnerMaps \X OwnerMaps : o[1] # o[2]}

\* A null map attribute, and a map attribute with the given elements.
NullMap == [null |-> TRUE, elems |-> {}]

MapValue(elems) == [null |-> FALSE, elems |-> elems]

AliasMaps == {NullMap, MapValue({}), MapValue({<<"alias1", "tmpl1">>})}

\* applicationResourceModel, as planned for Create.
applicationResourceModel ==
    [id : {""}, name : {"app1"}, owners : OwnerLists, ca_template_aliases : AliasMaps]

RECURSIVE CheckOwners(_, _)
\* The owners loop of Create, Update and Delete over owners[i..]: the
\* elements are looked at in order; m["type"].String() on a missing key
\* is a method call on a nil interface (a run-time panic); the first
\* unsupported type or empty owner id ends the method with that error.
CheckOwners(owners, i) ==
    IF i > Len(owners)
        THEN [status |-> "ok", owners |-> <<>>]
    ELSE LET m == owners[i]
         IN  IF ~({"type", "owner"} \subseteq DOMAIN m)
                 THEN [status |-> "panic", owners |-> <<>>]
             ELSE LET ownerKind == TrimQuotes(StringValueString(m.type))
                      ownerId == TrimQuotes(StringValueString(m.owner))
                      rest == CheckOwners(owners, i + 1)
                  IN  IF ownerKind # "USER" /\ ownerKind # "TEAM"
                          THEN [status |-> "unsupported owner type", owners |-> <<>>]
                      ELSE IF ownerId = ""
                          THEN [status |-> "undefined owner", owners |-> <<>>]
                      ELSE IF rest.status # "ok"
                          THEN rest
                      ELSE [status |-> "ok",
                            owners |-> <<[ownerId |-> ownerId, ownerType |-> ownerKind]>>
                                           \o rest.owners]

\* The aliases loop: every element of the map attribute, unquoted.
Aliases(m) == {<<e[1], TrimQuotes(StringValueString(e[2]))>> : e \in m.elems}

\* applicationResource.Create
applicationResource_Create(plan, reply) ==
    LET checked == CheckOwners(plan.owners, 1)
        application ==
            [Application EXCEPT !.name = plan.name, !.ownerIdsAndTypes = checked.owners,
                                !.certificateIssuingTemplateAliasIdMap =
                                    Aliases(plan.ca_template_aliases)]
        created == CreateApplication(application, reply)
    IN  IF checked.status # "ok"
            THEN Outcome(<<>>,
                         <<Diagnostic("Error creating application", checked.status, NilErr)>>,
                         Absent)
        ELSE IF ~created.err.nil
            THEN Outcome(created.reqs,
                         <<Diagnostic("Error creating application", "unexpected error",
                                      created.err)>>,
                         Absent)
        ELSE Outcome(created.reqs, <<>>, [plan EXCEPT !.id = created.value.id])

RECURSIVE OwnerMapsOf(_, _)
\* The owners loop of Read over app.Owners[i..].
OwnerMapsOf(owners, i) ==
    IF i > Len(owners)
        THEN <<>>
    ELSE <<[type |-> owners[i].ownerType, owner |-> owners[i].ownerId]>>
             \o OwnerMapsOf(owners, i + 1)

\* applicationResource.Read
applicationResource_Read(st, reply) ==
    LET got == GetApplication(st.id, reply)
        app == got.value
    IN  IF ~got.err.nil
            THEN Outcome(got.reqs,
                         <<Diagnostic("Error Reading Application",
                                      "Could not read application ID", got.err)>>,
                         st)
        ELSE Outcome(got.reqs, <<>>,
                     [st EXCEPT !.id = app.id, !.name = Attr(app, "name", ""),
                                !.owners = OwnerMapsOf(Attr(app, "ownerIdsAndTypes", <<>>), 1),
                                !.ca_template_aliases =
                                    MapValue(Attr(app, "certificateIssuingTemplateAliasIdMap",
                                                  {}))])

\* Mutant: Update sends the owners that passed before the first bad one.
applicationResource_UpdateSkipsCheck(plan, st, reply) ==
    LET checked == CheckOwners(plan.owners, 1)
        application ==
            [Application EXCEPT !.id = st.id, !.name = plan.name,
                                !.ownerIdsAndTypes = checked.owners,
                                !.certificateIssuingTemplateAliasIdMap =
                                    Aliases(plan.ca_template_aliases)]
        updated == UpdateApplication(application, reply)
    IN  IF ~updated.err.nil
            THEN Outcome(updated.reqs,
                         <<Diagnostic("Error updating application", "unexpected error",
                                      updated.err)>>,
                         st)
        ELSE Outcome(updated.reqs, <<>>, [plan EXCEPT !.id = updated.value.id])

\* applicationResource.Update: always calls UpdateApplication once the owners
\* pass; the id of the new state is the one the response carries.
applicationResource_Update(plan, st, reply) ==
    LET checked == CheckOwners(plan.owners, 1)
        application ==
            [Application EXCEPT !.id = st.id, !.name = plan.name,
                                !.ownerIdsAndTypes = checked.owners,
                                !.certificateIssuingTemplateAliasIdMap =
                                    Aliases(plan.ca_template_aliases)]
        updated == UpdateApplication(application, reply)
    IN  IF checked.status # "ok"
            THEN Outcome(<<>>,
                         <<Diagnostic("Error creating application", checked.status, NilErr)>>,
                         st)
        ELSE IF ~updated.err.nil
            THEN Outcome(updated.reqs,
                         <<Diagnostic("Error updating application", "unexpected error",
                                      updated.err)>>,
                         st)
        ELSE Outcome(updated.reqs, <<>>, [plan EXCEPT !.id = updated.value.id])

\* Mutant: a failed second delete is tried once more and its error dropped;
\* the fallback update carries the persisted aliases.
applicationResource_DeleteInsists(st, reply, updateReply, retryReply) ==
    LET first == DeleteApplication(st.id, reply)
        checked == CheckOwners(st.owners, 1)
        application ==
            [Application EXCEPT !.id = st.id, !.name = st.name,
                                !.ownerIdsAndTypes = checked.owners,
                                !.certificateIssuingTemplateAliasIdMap =
                                    Aliases(st.ca_template_aliases)]
        updated == UpdateApplication(application, updateReply)
        second == DeleteApplication(st.id, retryReply)
    IN  IF first.err.nil
            THEN Outcome(first.reqs, <<>>, Absent)
        ELSE IF checked.status # "ok"
            THEN Outcome(first.reqs,
                         <<Diagnostic("Error creating application", checked.status, NilErr)>>,
                         st)
        ELSE IF ~updated.err.nil
            THEN Outcome(first.reqs \o updated.reqs,
                         <<Diagnostic("Error updating application", "unexpected error",
                                      updated.err)>>,
                         st)
        ELSE IF ~second.err.nil
            THEN Outcome(first.reqs \o updated.reqs \o second.reqs \o second.reqs, <<>>, Absent)
        ELSE Outcome(first.reqs \o updated.reqs \o second.reqs, <<>>, Absent)

\* applicationResource.Delete: when the first delete call fails, whatever the
\* error, the application is updated with an empty alias map and deleted
\* again; the error of the first call is dropped.
applicationResource_Delete(st, reply, updateReply, retryReply) ==
    LET first == DeleteApplication(st.id, reply)
        checked == CheckOwners(st.owners, 1)
        application ==
            [Application EXCEPT !.id = st.id, !.name = st.name,
                                !.ownerIdsAndTypes = checked.owners,
                                !.certificateIssuingTemplateAliasIdMap = {}]
        updated == UpdateApplication(application, updateReply)
        second == DeleteApplication(st.id, retryReply)
    IN  IF first.err.nil
            THEN Outcome(first.reqs, <<>>, Absent)
        ELSE IF checked.status # "ok"
            THEN Outcome(first.reqs,
                         <<Diagnostic("Error creating application", checked.status, NilErr)>>,
                         st)
        ELSE IF ~updated.err.nil
            THEN Outcome(first.reqs \o updated.reqs,
                         <<Diagnostic("Error updating application", "unexpected error",
                                      updated.err)>>,
                         st)
        ELSE IF ~second.err.nil
            THEN Outcome(first.reqs \o updated.reqs \o second.reqs,
                         <<Diagnostic("Error Deleting Application",
                                      "Could not delete Application ID", second.err)>>,
                         st)
        ELSE Outcome(first.reqs \o updated.reqs \o second.reqs, <<>>, Absent)

(***************************************************************************)
(* Firefly sub-CA provider reconciler                                      *)
(* (internal/provider/firefly_subca_resource.go)                           *)
(***************************************************************************)

\* fireflySubCAResourceModel, as planned for Create.
fireflySubCAResourceModel ==
    [id : {""}, name : {"subca1", "subca2"}, ca_type : {"BUILTIN"}, ca_account_id : {"acct1"},
     ca_product_option_id : {"opt1"}, common_name : {"firefly-subca"},
     key_algorithm : {"EC_P256"}, validity_period : {"P90D", "P30D"}]

\* The tlspc.FireflySubCAProvider both Create and Update build from the plan.
SubCAFromPlan(id, plan) ==
    [FireflySubCAProvider EXCEPT
        !.id = id, !.name = plan.name, !.caType = plan.ca_type,
        !.caAccountId = plan.ca_account_id, !.caProductOptionId = plan.ca_product_option_id,
        !.commonName = plan.common_name, !.keyAlgorithm = plan.key_algorithm,
        !.validityPeriod = plan.validity_period]

\* fireflySubCAResource.Create
fireflySubCAResource_Create(plan, reply) ==
    LET created == CreateFireflySubCAProvider(SubCAFromPlan("", plan), reply)
    IN  IF ~created.err.nil
            THEN Outcome(created.reqs,
                         <<Diagnostic("Error creating Firefly SubCA Provider",
                                      "unexpected error", created.err)>>,
                         Absent)
        ELSE Outcome(created.reqs, <<>>, [plan EXCEPT !.id = created.value.id])

\* fireflySubCAResource.Read
fireflySubCAResource_Read(st, reply) ==
    LET got == GetFireflySubCAProvider(st.id, reply)
        ff == got.value
    IN  IF ~got.err.nil
            THEN Outcome(got.reqs,
                         <<Diagnostic("Error Reading FireflyConfig",
                                      "Could not read FireflyConfig ID", got.err)>>,
                         st)
        ELSE Outcome(got.reqs, <<>>,
                     [st EXCEPT !.id = ff.id, !.name = Attr(ff, "name", ""),
                                !.ca_type = Attr(ff, "caType", ""),
                                !.ca_account_id = Attr(ff, "caAccountId", ""),
                                !.ca_product_option_id = Attr(ff, "caProductOptionId", ""),
                                !.common_name = Attr(ff, "commonName", ""),
                                !.key_algorithm = Attr(ff, "keyAlgorithm", ""),
                                !.validity_period = Attr(ff, "validityPeriod", "")])

\* fireflySubCAResource.Update: always calls UpdateFireflySubCAProvider; the
\* id of the new state is the one the response carries.
fireflySubCAResource_Update(plan, st, reply) ==
    LET updated == UpdateFireflySubCAProvider(SubCAFromPlan(st.id, plan), reply)
    IN  IF ~updated.err.nil
            THEN Outcome(updated.reqs,
                         <<Diagnostic("Error updating Firefly SubCA Provider",
                                      "unexpected error", updated.err)>>,
                         st)
        ELSE Outcome(updated.reqs, <<>>, [plan EXCEPT !.id = updated.value.id])

\* fireflySubCAResource.Delete: the call made is Client.DeleteFireflyConfig.
fireflySubCAResource_Delete(st, reply) ==
    LET deleted == DeleteFireflyConfig(st.id, reply)
    IN  IF ~deleted.err.nil
            THEN Outcome(deleted.reqs,
                         <<Diagnostic("Error Deleting FireflyConfig",
                                      "Could not delete FireflyConfig ID", deleted.err)>>,
                         st)
        ELSE Outcome(deleted.reqs, <<>>, Absent)

(***************************************************************************)
(* Firefly config reconciler (fireflyConfigResource, same file)            *)
(***************************************************************************)

\* fireflyConfigResourceModel, as planned for Create.
fireflyConfigResourceModel ==
    [id : {""}, name : {"cfg1", "cfg2"}, subca_provider : {"subca-uuid"},
     service_accounts : {{}, {"sa-uuid"}}, policies : {{}, {"policy-uuid"}}]

\* The tlspc.FireflyConfig both Create and Update build from the plan.
ConfigFromPlan(id, plan) ==
    [FireflyConfig EXCEPT
        !.id = id, !.name = plan.name, !.subCaProviderId = plan.subca_provider,
        !.policyIds = plan.policies, !.serviceAccountIds = plan.service_accounts,
        !.minTlsVersion = "TLS13"]

\* fireflyConfigResource.Create
fireflyConfigResource_Create(plan, reply) ==
    LET created == CreateFireflyConfig(ConfigFromPlan("", plan), reply)
    IN  IF ~created.err.nil
            THEN Outcome(created.reqs,
                         <<Diagnostic("Error creating FireflyConfig", "unexpected error",
                                      created.err)>>,
                         Absent)
        ELSE Outcome(created.reqs, <<>>, [plan EXCEPT !.id = created.value.id])

\* fireflyConfigResource.Read: id, name, service accounts and the ids of the
\* embedded policies come from the API; subca_provider is not refreshed.
fireflyConfigResource_Read(st, reply) ==
    LET got == GetFireflyConfig(st.id, reply)
        ff == got.value
    IN  IF ~got.err.nil
            THEN Outcome(got.reqs,
                         <<Diagnostic("Error Reading FireflyConfig",
                                      "Could not read FireflyConfig ID", got.err)>>,
                         st)
        ELSE Outcome(got.reqs, <<>>,
                     [st EXCEPT !.id = ff.id, !.name = Attr(ff, "name", ""),
                                !.service_accounts = Attr(ff, "serviceAccountIds", {}),
                                !.policies = {pol.id : pol \in Attr(ff, "policies", {})}])

\* fireflyConfigResource.Update: always calls UpdateFireflyConfig; the id of
\* the new state is the one the response carries.
fireflyConfigResource_Update(plan, st, reply) ==
    LET updated == UpdateFireflyConfig(ConfigFromPlan(st.id, plan), reply)
    IN  IF ~updated.err.nil
            THEN Outcome(updated.reqs,
                         <<Diagnostic("Error updating FireflyConfig", "unexpected error",
                                      updated.err)>>,
                         st)
        ELSE Outcome(updated.reqs, <<>>, [plan EXCEPT !.id = updated.value.id])

\* fireflyConfigResource.Delete
fireflyConfigResource_Delete(st, reply) ==
    LET deleted == DeleteFireflyConfig(st.id, reply)
    IN  IF ~deleted.err.nil
            THEN Outcome(deleted.reqs,
                         <<Diagnostic("Error Deleting FireflyConfig",
                                      "Could not delete FireflyConfig ID", deleted.err)>>,
                         st)
        ELSE Outcome(deleted.reqs, <<>>, Absent)

(***************************************************************************)
(* Firefly policy reconciler (fireflyPolicyResource,                       *)
(* internal/provider/registry_account_resource.go)                         *)
(***************************************************************************)

\* A set attribute decoded into a []types.String: a null set is the nil slice.
NullSet == [null |-> TRUE, elems |-> {}]

SetValue(elems) == [null |-> FALSE, elems |-> elems]

\* policyModel values of a plan: default_values is optional, so it may be null.
PolicyModels ==
    {[allowed_values |-> SetValue({}), default_values |-> NullSet, max_occurrences |-> 0,
      min_occurrences |-> 0, type |-> "IGNORED"],
     [allowed_values |-> SetValue({".*"}), default_values |-> SetValue({"example.com"}),
      max_occurrences |-> 10, min_occurrences |-> 1, type |-> "REQUIRED"]}

IgnoredPolicyModel ==
    [allowed_values |-> SetValue({}), default_values |-> SetValue({}), max_occurrences |-> 0,
     min_occurrences |-> 0, type |-> "IGNORED"]

\* fireflyPolicyResourceModel, as planned for Create.
fireflyPolicyResourceModel ==
    [id : {""}, name : {"policy1", "policy2"},
     extended_key_usages : {SetValue({"ANY"})},
     key_algorithm : {[allowed_values |-> SetValue({"EC_P256"}), default_value |-> "EC_P256"]},
     key_usages : {SetValue({"digitalSignature"})},
     sans : {[dns_names |-> pm, ip_addresses |-> IgnoredPolicyModel,
              rfc822_names |-> IgnoredPolicyModel, uris |-> IgnoredPolicyModel] :
                 pm \in PolicyModels},
     subject : {[common_name |-> pm, country |-> IgnoredPolicyModel,
                 locality |-> IgnoredPolicyModel, organization |-> IgnoredPolicyModel,
                 organizational_unit |-> IgnoredPolicyModel,
                 state_or_province |-> IgnoredPolicyModel] : pm \in PolicyModels},
     validity_period : {"P30D"}]

\* coercePolicyDetails: ranging over a nil slice appends nothing, so a null
\* set becomes an empty list.
coercePolicyDetails(p) ==
    [allowedValues |-> p.allowed_values.elems, defaultValues |-> p.default_values.elems,
     maxOccurrences |-> p.max_occurrences, minOccurrences |-> p.min_occurrences,
     type |-> p.type]

\* coercePolicyModel: both sets come back as non-nil slices.
coercePolicyModel(p) ==
    [allowed_values |-> SetValue(p.allowedValues),
     default_values |-> SetValue(p.defaultValues),
     max_occurrences |-> p.maxOccurrences, min_occurrences |-> p.minOccurrences,
     type |-> p.type]

\* coercePolicy: the id is left zero.
coercePolicy(plan) ==
    [id |-> "", name |-> plan.name,
     extendedKeyUsages |-> plan.extended_key_usages.elems,
     keyAlgorithm |-> [allowedValues |-> plan.key_algorithm.allowed_values.elems,
                       defaultValue |-> plan.key_algorithm.default_value],
     keyUsages |-> plan.key_usages.elems,
     sans |-> [dnsNames |-> coercePolicyDetails(plan.sans.dns_names),
               ipAddresses |-> coercePolicyDetails(plan.sans.ip_addresses),
               rfc822Names |-> coercePolicyDetails(plan.sans.rfc822_names),
               uniformResourceIdentifiers |-> coercePolicyDetails(plan.sans.uris)],
     subject |-> [commonName |-> coercePolicyDetails(plan.subject.common_name),
                  country |-> coercePolicyDetails(plan.subject.country),
                  locality |-> coercePolicyDetails(plan.subject.locality),
                  organization |-> coercePolicyDetails(plan.subject.organization),
                  organizationalUnit |-> coercePolicyDetails(plan.subject.organizational_unit),
                  stateOrProvince |-> coercePolicyDetails(plan.subject.state_or_province)],
     validityPeriod |-> plan.validity_period]

\* fireflyPolicyResource.Create
fireflyPolicyResource_Create(plan, reply) ==
    LET created == CreateFireflyPolicy(coercePolicy(plan), reply)
    IN  IF ~created.err.nil
            THEN Outcome(created.reqs,
                         <<Diagnostic("Error creating Firefly Policy", "unexpected error",
                                      created.err)>>,
                         Absent)
        ELSE Outcome(created.reqs, <<>>, [plan EXCEPT !.id = created.value.id])

\* fireflyPolicyResource.Read
fireflyPolicyResource_Read(st, reply) ==
    LET got == GetFireflyPolicy(st.id, reply)
        ff == got.value
        alg == Attr(ff, "keyAlgorithm", KeyAlgorithm)
        sans == Attr(ff, "sans", SANs)
        subject == Attr(ff, "subject", FireflyPolicySubject)
    IN  IF ~got.err.nil
            THEN Outcome(got.reqs,
                         <<Diagnostic("Error Reading FireflyConfig",
                                      "Could not read FireflyConfig ID", got.err)>>,
                         st)
        ELSE Outcome(got.reqs, <<>>,
                     [id |-> ff.id, name |-> Attr(ff, "name", ""),
                      validity_period |-> Attr(ff, "validityPeriod", ""),
                      extended_key_usages |-> SetValue(Attr(ff, "extendedKeyUsages", {})),
                      key_usages |-> SetValue(Attr(ff, "keyUsages", {})),
                      key_algorithm |-> [allowed_values |-> SetValue(alg.allowedValues),
                                         default_value |-> alg.defaultValue],
                      sans |-> [dns_names |-> coercePolicyModel(sans.dnsNames),
                                ip_addresses |-> coercePolicyModel(sans.ipAddresses),
                                rfc822_names |-> coercePolicyModel(sans.rfc822Names),
                                uris |-> coercePolicyModel(sans.uniformResourceIdentifiers)],
                      subject |-> [common_name |-> coercePolicyModel(subject.commonName),
                                   country |-> coercePolicyModel(subject.country),
                                   locality |-> coercePolicyModel(subject.locality),
                                   organization |-> coercePolicyModel(subject.organization),
                                   organizational_unit |->
                                       coercePolicyModel(subject.organizationalUnit),
                                   state_or_province |->
                                       coercePolicyModel(subject.stateOrProvince)]])

\* fireflyPolicyResource.Update: always calls UpdateFireflyPolicy with the
\* id in the state; the id of the new state is the one the response carries.
fireflyPolicyResource_Update(plan, st, reply) ==
    LET updated == UpdateFireflyPolicy([coercePolicy(plan) EXCEPT !.id = st.id], reply)
    IN  IF ~updated.err.nil
            THEN Outcome(updated.reqs,
                         <<Diagnostic("Error updating Firefly Policy", "unexpected error",
                                      updated.err)>>,
                         st)
        ELSE Outcome(updated.reqs, <<>>, [plan EXCEPT !.id = updated.value.id])

\* fireflyPolicyResource.Delete
fireflyPolicyResource_Delete(st, reply) ==
    LET deleted == DeleteFireflyPolicy(st.id, reply)
    IN  IF ~deleted.err.nil
            THEN Outcome(deleted.reqs,
                         <<Diagnostic("Error Deleting FireflyConfig",
                                      "Could not delete FireflyConfig ID", deleted.err)>>,
                         st)
        ELSE Outcome(deleted.reqs, <<>>, Absent)

(***************************************************************************)
(* API client: GCP cloud providers, over GraphQL                           *)
(***************************************************************************)

\* The strings uuid.Parse accepts.
UUIDs == Ids \cup {"team-uuid"}

\* strconv.FormatInt(n, 10) for the project numbers of the plans.
FormatInt(n) == IF n = 1001 THEN "1001" ELSE IF n = 1002 THEN "1002" ELSE "0"

\* strconv.ParseInt(s, 10, 64): ok is false when s is not a number.
ParseInt(s) ==
    IF s = "1001" THEN [ok |-> TRUE, n |-> 1001]
    ELSE IF s = "1002" THEN [ok |-> TRUE, n |-> 1002]
    ELSE IF s = "0" THEN [ok |-> TRUE, n |-> 0]
    ELSE [ok |-> FALSE, n |-> 0]

\* The zero value of struct CloudProviderGCP.
CloudProviderGCP ==
    [id |-> "", issuerUrl |-> "", name |-> "", team |-> "", serviceAccountEmail |-> "",
     projectNumber |-> 0, workloadIdentityPoolId |-> "", workloadIdentityPoolProviderId |-> ""]

\* One call of a generated GraphQL function: a POST of the operation and its
\* variables to the GraphQL endpoint.
graphqlRequest(fn, operation, variables) ==
    doRequest(fn, "POST", "/graphql", "", [operation |-> operation, variables |-> variables])

\* A cloud provider as a GraphQL response carries it; the configuration is a
\* union, of which only the GCP member is accepted.
GCPNode(id, name, configType, projectNumber) ==
    [id |-> id, name |-> name, team |-> "team-uuid", configType |-> configType,
     issuerUrl |-> "https://issuer.example", projectNumber |-> projectNumber,
     serviceAccountEmail |-> "sa@example.iam", workloadIdentityPoolId |-> "pool",
     workloadIdentityPoolProviderId |-> "provider"]

\* The CloudProviderGCP built from a node of a response.
FromGCPNode(node) ==
    [id |-> node.id, issuerUrl |-> node.issuerUrl, name |-> node.name, team |-> node.team,
     serviceAccountEmail |-> node.serviceAccountEmail,
     projectNumber |-> ParseInt(node.projectNumber).n,
     workloadIdentityPoolId |-> node.workloadIdentityPoolId,
     workloadIdentityPoolProviderId |-> node.workloadIdentityPoolProviderId]

\* Client.CreateCloudProviderGCP: the team is parsed before anything is sent.
CreateCloudProviderGCP(p, reply) ==
    LET req == graphqlRequest("CreateCloudProviderGCP", "NewGCPProvider",
                              [name |-> p.name, team |-> p.team,
                               serviceAccountEmail |-> p.serviceAccountEmail,
                               projectNumber |-> FormatInt(p.projectNumber),
                               workloadIdentityPoolId |-> p.workloadIdentityPoolId,
                               workloadIdentityPoolProviderId |->
                                   p.workloadIdentityPoolProviderId])
    IN  IF p.team \notin UUIDs
            THEN Return(<<>>, Errorf("invalid UUID"), CloudProviderGCP)
        ELSE IF reply.fail # "none" \/ ~reply.body.valid
            THEN Return(<<req>>, Errorf("graphql error"), CloudProviderGCP)
        ELSE IF reply.body.attrs.node.configType # "gcp"
            THEN Return(<<req>>, Errorf("No GCP CloudProvider Configuration returned"),
                        CloudProviderGCP)
        ELSE IF ~ParseInt(reply.body.attrs.node.projectNumber).ok
            THEN Return(<<req>>, Errorf("strconv.ParseInt"), CloudProviderGCP)
        ELSE Return(<<req>>, NilErr, FromGCPNode(reply.body.attrs.node))

\* Mutant: the first provider of the listing is taken once some provider has
\* the id.
GetCloudProviderGCPFirstNode(id, reply) ==
    LET req == graphqlRequest("GetCloudProviderGCP", "GCPProviders", <<>>)
        nodes == reply.body.attrs.nodes
        found == {i \in 1..Len(nodes) : nodes[i].id = id}
        node == nodes[1]
    IN  IF reply.fail # "none" \/ ~reply.body.valid
            THEN Return(<<req>>, Errorf("graphql error"), CloudProviderGCP)
        ELSE IF found = {}
            THEN Return(<<req>>, Errorf("GCP CloudProvider not found"), CloudProviderGCP)
        ELSE IF node.configType # "gcp"
            THEN Return(<<req>>, Errorf("Expected GCP Configuration not found"),
                        CloudProviderGCP)
        ELSE IF ~ParseInt(node.projectNumber).ok
            THEN Return(<<req>>, Errorf("strconv.ParseInt"), CloudProviderGCP)
        ELSE Return(<<req>>, NilErr, FromGCPNode(node))

\* Client.GetCloudProviderGCP: lists every provider and picks the one with
\* the id.
GetCloudProviderGCP(id, reply) ==
    LET req == graphqlRequest("GetCloudProviderGCP", "GCPProviders", <<>>)
        nodes == reply.body.attrs.nodes
        found == {i \in 1..Len(nodes) : nodes[i].id = id}
        node == nodes[CHOOSE i \in found : \A j \in found : i <= j]
    IN  IF reply.fail # "none" \/ ~reply.body.valid
            THEN Return(<<req>>, Errorf("graphql error"), CloudProviderGCP)
        ELSE IF found = {}
            THEN Return(<<req>>, Errorf("GCP CloudProvider not found"), CloudProviderGCP)
        ELSE IF node.configType # "gcp"
            THEN Return(<<req>>, Errorf("Expected GCP Configuration not found"),
                        CloudProviderGCP)
        ELSE IF ~ParseInt(node.projectNumber).ok
            THEN Return(<<req>>, Errorf("strconv.ParseInt"), CloudProviderGCP)
        ELSE Return(<<req>>, NilErr, FromGCPNode(node))

\* Client.UpdateCloudProviderGCP: id and team are parsed before anything is
\* sent; the service account email is not among the variables.
UpdateCloudProviderGCP(p, reply) ==
    LET req == graphqlRequest("UpdateCloudProviderGCP", "UpdateGCPProvider",
                              [id |-> p.id, name |-> p.name, team |-> p.team,
                               projectNumber |-> FormatInt(p.projectNumber),
                               workloadIdentityPoolId |-> p.workloadIdentityPoolId,
                               workloadIdentityPoolProviderId |->
                                   p.workloadIdentityPoolProviderId])
    IN  IF p.id \notin UUIDs \/ p.team \notin UUIDs
            THEN Return(<<>>, Errorf("invalid UUID"), CloudProviderGCP)
        ELSE IF reply.fail # "none" \/ ~reply.body.valid
            THEN Return(<<req>>, Errorf("graphql error"), CloudProviderGCP)
        ELSE IF reply.body.attrs.node.configType # "gcp"
            THEN Return(<<req>>, Errorf("Error updating GCP Cloud Provider"),
                        CloudProviderGCP)
        ELSE IF ~ParseInt(reply.body.attrs.node.projectNumber).ok
            THEN Return(<<req>>, Errorf("strconv.ParseInt"), CloudProviderGCP)
        ELSE Return(<<req>>, NilErr, FromGCPNode(reply.body.attrs.node))

\* Client.DeleteCloudProviderGCP
DeleteCloudProviderGCP(id, reply) ==
    LET req == graphqlRequest("DeleteCloudProviderGCP", "DeleteGCPProvider", [id |-> id])
    IN  IF id \notin UUIDs
            THEN Return(<<>>, Errorf("invalid UUID"), EmptyBody)
        ELSE IF reply.fail # "none" \/ ~reply.body.valid
            THEN Return(<<req>>, Errorf("graphql error"), EmptyBody)
        ELSE Return(<<req>>, NilErr, EmptyBody)

(***************************************************************************)
(* GCP cloud provider reconciler (cloudProviderGCPResource,                *)
(* internal/provider/team_resource.go)                                     *)
(***************************************************************************)

\* cloudProviderGCPResourceModel, as planned for Create: id and issuer_url
\* are computed.
cloudProviderGCPResourceModel ==
    [id : {""}, issuer_url : {""}, name : {"gcp1", "gcp2"}, team : {"team-uuid", "not-a-uuid"},
     service_account_email : {"sa@example.iam"}, project_number : {1001, 1002},
     workload_identity_pool_id : {"pool"}, workload_identity_pool_provider_id : {"provider"}]

\* The tlspc.CloudProviderGCP both Create and Update build from the plan.
GCPFromPlan(id, plan) ==
    [CloudProviderGCP EXCEPT
        !.id = id, !.name = plan.name, !.team = plan.team,
        !.serviceAccountEmail = plan.service_account_email,
        !.projectNumber = plan.project_number,
        !.workloadIdentityPoolId = plan.workload_identity_pool_id,
        !.workloadIdentityPoolProviderId = plan.workload_identity_pool_provider_id]

\* cloudProviderGCPResource.Create
cloudProviderGCPResource_Create(plan, reply) ==
    LET created == CreateCloudProviderGCP(GCPFromPlan("", plan), reply)
    IN  IF ~created.err.nil
            THEN Outcome(created.reqs,
                         <<Diagnostic("Error creating GCP Cloud Provider",
                                      "Could not create GCP Cloud Provider", created.err)>>,
                         Absent)
        ELSE Outcome(created.reqs, <<>>,
                     [plan EXCEPT !.id = created.value.id,
                                  !.issuer_url = created.value.issuerUrl])

\* cloudProviderGCPResource.Read: every attribute but the id is refreshed.
cloudProviderGCPResource_Read(st, reply) ==
    LET got == GetCloudProviderGCP(st.id, reply)
        cp == got.value
    IN  IF ~got.err.nil
            THEN Outcome(got.reqs,
                         <<Diagnostic("Error retrieving GCP Cloud Provider",
                                      "Could not find GCP Cloud Provider", got.err)>>,
                         st)
        ELSE Outcome(got.reqs, <<>>,
                     [st EXCEPT !.issuer_url = cp.issuerUrl, !.name = cp.name,
                                !.team = cp.team,
                                !.service_account_email = cp.serviceAccountEmail,
                                !.project_number = cp.projectNumber,
                                !.workload_identity_pool_id = cp.workloadIdentityPoolId,
                                !.workload_identity_pool_provider_id =
                                    cp.workloadIdentityPoolProviderId])

\* cloudProviderGCPResource.Update: always calls UpdateCloudProviderGCP; of
\* its result only the issuer URL is stored.
cloudProviderGCPResource_Update(plan, st, reply) ==
    LET updated == UpdateCloudProviderGCP(GCPFromPlan(st.id, plan), reply)
    IN  IF ~updated.err.nil
            THEN Outcome(updated.reqs,
                         <<Diagnostic("Error updating GCP Cloud Provider",
                                      "Could not update GCP Cloud Provider", updated.err)>>,
                         st)
        ELSE Outcome(updated.reqs, <<>>, [plan EXCEPT !.issuer_url = updated.value.issuerUrl])

\* cloudProviderGCPResource.Delete
cloudProviderGCPResource_Delete(st, reply) ==
    LET deleted == DeleteCloudProviderGCP(st.id, reply)
    IN  IF ~deleted.err.nil
            THEN Outcome(deleted.reqs,
                         <<Diagnostic("Error updating GCP Cloud Provider",
                                      "Could not updating GCP Cloud Provider", deleted.err)>>,
                         st)
        ELSE Outcome(deleted.reqs, <<>>, Absent)

\* Answers of the GraphQL endpoint to a mutation: a failure, or the provider
\* with its configuration.
GCPWriteReplies ==
    {TransportFailure, Response(StatusOK, EmptyBody)}
        \cup {Response(StatusOK,
                       JSONBody(node.id, <<>>, [kind |-> "cloudprovider", node |-> node])) :
                  node \in {GCPNode("id1", "gcp1", "gcp", "1001"),
                            GCPNode("id2", "gcp2", "gcp", "1002"),
                            GCPNode("id1", "gcp1", "aws", "1001"),
                            GCPNode("id1", "gcp1", "gcp", "")}}

\* Answers of the GraphQL endpoint to the query listing the providers.
GCPReadReplies ==
    {TransportFailure}
        \cup {Response(StatusOK, JSONBody("", <<>>, [kind |-> "cloudproviders", nodes |-> ns])) :
                  ns \in {<<>>,
                          <<GCPNode("id1", "gcp1", "gcp", "1001")>>,
                          <<GCPNode("id2", "gcp2", "gcp", "1002"),
                            GCPNode("id1", "renamed", "gcp", "1002")>>,
                          <<GCPNode("id1", "gcp1", "aws", "1001"),
                            GCPNode("id2", "gcp2", "gcp", "")>>}}

(***************************************************************************)
(* GCP connection validation: client (internal/tlspc) and reconciler       *)
(* (cloudProviderGCPValidateResource, internal/provider)                   *)
(***************************************************************************)

\* graphql.CloudProviderStatusValidated and another status of the enum.
CloudProviderStatusValidated == "VALIDATED"

CloudProviderStatuses == {CloudProviderStatusValidated, "NOT_VALIDATED"}

\* Client.GetCloudProviderGCPValidation: the id is parsed before anything is
\* sent; the details are a union, of which only the GCP member is accepted.
GetCloudProviderGCPValidation(id, reply) ==
    LET req == graphqlRequest("GetCloudProviderGCPValidation", "GetGCPProviderDetails",
                              [id |-> id])
    IN  IF id \notin UUIDs
            THEN Return(<<>>, Errorf("invalid UUID"), FALSE)
        ELSE IF reply.fail # "none" \/ ~reply.body.valid
            THEN Return(<<req>>, Errorf("graphql error"), FALSE)
        ELSE IF reply.body.attrs.detailsType # "gcp"
            THEN Return(<<req>>, Errorf("Error retrieving GCP CloudProvider status"), FALSE)
        ELSE Return(<<req>>, NilErr, reply.body.attrs.status = CloudProviderStatusValidated)

\* Client.ValidateCloudProviderGCP: one validation mutation; its result is
\* compared with the validated status.
ValidateCloudProviderGCP(id, reply) ==
    LET req == graphqlRequest("ValidateCloudProviderGCP", "ValidateGCPProvider", [id |-> id])
    IN  IF id \notin UUIDs
            THEN Return(<<>>, Errorf("invalid UUID"), FALSE)
        ELSE IF reply.fail # "none" \/ ~reply.body.valid
            THEN Return(<<req>>, Errorf("graphql error"), FALSE)
        ELSE Return(<<req>>, NilErr, reply.body.attrs.status = CloudProviderStatusValidated)

\* cloudProviderGCPValidateResourceModel: both attributes are required.
cloudProviderGCPValidateResourceModel ==
    [cloudprovider_id : {"id1", "id2", "not-a-uuid"}, validate : BOOLEAN]

\* Mutant: Create asks again when the connection has not validated yet.
cloudProviderGCPValidateResource_CreatePolls(plan, reply) ==
    LET validated == ValidateCloudProviderGCP(plan.cloudprovider_id, reply)
    IN  IF ~plan.validate
            THEN Outcome(<<>>,
                         <<Diagnostic("Error validating GCP Cloud Provider Connection",
                                      "Validate can only be set to true", NilErr)>>,
                         Absent)
        ELSE IF ~validated.err.nil
            THEN Outcome(validated.reqs \o validated.reqs,
                         <<Diagnostic("Error validating GCP Cloud Provider Connection",
                                      "Could validate GCP Cloud Provider", validated.err)>>,
                         Absent)
        ELSE IF ~validated.value
            THEN Outcome(validated.reqs \o validated.reqs,
                         <<Diagnostic("Error validating GCP Cloud Provider Connection",
                                      "Could validate GCP Cloud Provider connection", NilErr)>>,
                         Absent)
        ELSE Outcome(validated.reqs, <<>>, [plan EXCEPT !.validate = validated.value])

\* cloudProviderGCPValidateResource.Create: a plan of false is refused before
\* any call; the state is stored only when the connection validated.
cloudProviderGCPValidateResource_Create(plan, reply) ==
    LET validated == ValidateCloudProviderGCP(plan.cloudprovider_id, reply)
    IN  IF ~plan.validate
            THEN Outcome(<<>>,
                         <<Diagnostic("Error validating GCP Cloud Provider Connection",
                                      "Validate can only be set to true", NilErr)>>,
                         Absent)
        ELSE IF ~validated.err.nil
            THEN Outcome(validated.reqs,
                         <<Diagnostic("Error validating GCP Cloud Provider Connection",
                                      "Could validate GCP Cloud Provider", validated.err)>>,
                         Absent)
        ELSE IF ~validated.value
            THEN Outcome(validated.reqs,
                         <<Diagnostic("Error validating GCP Cloud Provider Connection",
                                      "Could validate GCP Cloud Provider connection", NilErr)>>,
                         Absent)
        ELSE Outcome(validated.reqs, <<>>, [plan EXCEPT !.validate = validated.value])

\* cloudProviderGCPValidateResource.Read: the error of the client call is
\* discarded (_ = err) and the returned flag, false on an error, is stored.
cloudProviderGCPValidateResource_Read(st, reply) ==
    LET got == GetCloudProviderGCPValidation(st.cloudprovider_id, reply)
    IN  Outcome(got.reqs, <<>>, [st EXCEPT !.validate = got.value])

\* cloudProviderGCPValidateResource.Update: a plan of false is refused before
\* any call; otherwise the connection of the state's provider is validated
\* and the result, whatever it is, is stored with the plan.
cloudProviderGCPValidateResource_Update(plan, st, reply) ==
    LET validated == ValidateCloudProviderGCP(st.cloudprovider_id, reply)
    IN  IF ~plan.validate
            THEN Outcome(<<>>,
                         <<IF st.validate
                               THEN Diagnostic("Error updating GCP Cloud Provider Connection validation",
                                               "Can not unvalidate connection status", NilErr)
                               ELSE Diagnostic("Error validating GCP Cloud Provider Connection",
                                               "Validate can only be set to true", NilErr)>>,
                         st)
        ELSE IF ~validated.err.nil
            THEN Outcome(validated.reqs,
                         <<Diagnostic("Error validating GCP Cloud Provider Connection",
                                      "Could validate GCP Cloud Provider", validated.err)>>,
                         st)
        ELSE Outcome(validated.reqs, <<>>, [plan EXCEPT !.validate = validated.value])

\* Mutant: Delete asks the API for the status before giving the state up.
cloudProviderGCPValidateResource_DeleteChecks(st) ==
    Outcome(GetCloudProviderGCPValidation(st.cloudprovider_id, TransportFailure).reqs, <<>>, Absent)

\* cloudProviderGCPValidateResource.Delete: reads the state and does nothing
\* else; the framework removes the state.
cloudProviderGCPValidateResource_Delete(st) == Outcome(<<>>, <<>>, Absent)

\* Answers of the GraphQL endpoint to the validation mutation and to the
\* details query.
GCPValidationReplies ==
    {TransportFailure, Response(StatusOK, EmptyBody)}
        \cup {Response(StatusOK,
                       JSONBody("", <<>>,
                                [kind |-> "validation", detailsType |-> t, status |-> v])) :
                  t \in {"gcp", "aws"}, v \in CloudProviderStatuses}

(***************************************************************************)
(* One resource instance of any type under its reconciler                  *)
(***************************************************************************)

\* The resource types the provider registers a reconciler for.
ResourceKinds ==
    {"team", "service_account", "registry_account", "plugin", "certificate_template",
     "application", "firefly_policy", "firefly_subca", "firefly_config", "cloudprovider_gcp",
     "cloudprovider_gcp_validate"}

\* The resource model the plan of a resource of type k decodes into.
ResourceModel(k) ==
    IF k = "team" THEN teamResourceModel
    ELSE IF k = "service_account" THEN serviceAccountResourceModel
    ELSE IF k = "registry_account" THEN registryAccountResourceModel
    ELSE IF k = "plugin" THEN pluginResourceModel
    ELSE IF k = "certificate_template" THEN certificateTemplateResourceModel
    ELSE IF k = "application" THEN applicationResourceModel
    ELSE IF k = "firefly_policy" THEN fireflyPolicyResourceModel
    ELSE IF k = "firefly_subca" THEN fireflySubCAResourceModel
    ELSE IF k = "firefly_config" THEN fireflyConfigResourceModel
    ELSE IF k = "cloudprovider_gcp_validate" THEN cloudProviderGCPValidateResourceModel
    ELSE cloudProviderGCPResourceModel

\* The computed attributes whose schema carries UseStateForUnknown.
StateForUnknownAttrs(k) ==
    IF k \in {"team", "service_account", "registry_account", "cloudprovider_gcp_validate"}
        THEN {}
    ELSE IF k = "cloudprovider_gcp" THEN {"id", "issuer_url"}
    ELSE {"id"}

\* Answers of the API to the GET (for GCP, the listing query) of Read.
ReadReplies(k) ==
    IF k = "service_account"
        THEN ({TransportFailure, Response(404, EmptyBody)}
                \cup {Response(StatusOK,
                               JSONBody(id, <<>>,
                                        [kind |-> "serviceaccount", name |-> "k8s-cluster",
                                         owner |-> "team1", scopes |-> {"kubernetes-discovery"},
                                         publicKey |-> pk, credentialLifetime |-> cl])) :
                          id \in IdOrEmpty, pk \in {"", "pk1"}, cl \in {0, 365}})
    ELSE IF k = "registry_account"
        THEN ({TransportFailure, Response(404, EmptyBody)}
                \cup {Response(StatusOK,
                               JSONBody(id, <<>>,
                                        [kind |-> "serviceaccount", name |-> n, owner |-> "team1",
                                         scopes |-> {"oci-registry-cm"}])) :
                          id \in IdOrEmpty, n \in {"reg1", "reg2"}})
    ELSE IF k = "plugin"
        THEN ({TransportFailure, Response(404, EmptyBody)}
                \cup {Response(StatusOK,
                               JSONBody(id, <<>>,
                                        [kind |-> "plugin", pluginType |-> "CA", manifest |-> m])) :
                          id \in IdOrEmpty, m \in {"object()", "object(a:1)"}})
    ELSE IF k = "certificate_template"
        THEN ({TransportFailure, Response(404, EmptyBody)}
                \cup {Response(StatusOK,
                               JSONBody(id, <<>>,
                                        [kind |-> "template", certificateAuthority |-> "BUILTIN",
                                         certificateAuthorityProductOptionId |-> o,
                                         keyReuse |-> FALSE])) :
                          id \in IdOrEmpty, o \in {"opt1", "opt2"}})
    ELSE IF k = "application"
        THEN ({TransportFailure, Response(404, EmptyBody)}
                \cup {Response(StatusOK,
                               JSONBody(id, <<>>,
                                        [kind |-> "application", name |-> "app1",
                                         ownerIdsAndTypes |-> o,
                                         certificateIssuingTemplateAliasIdMap |-> a])) :
                          id \in IdOrEmpty,
                          o \in {<<>>, <<[ownerId |-> "u1", ownerType |-> "USER"]>>},
                          a \in {{}, {<<"alias1", "tmpl1">>}}})
    ELSE IF k = "firefly_subca"
        THEN ({TransportFailure, Response(404, EmptyBody)}
                \cup {Response(StatusOK,
                               JSONBody(id, <<>>,
                                        [kind |-> "subcaprovider", name |-> n, caType |-> "BUILTIN",
                                         caAccountId |-> "acct1", caProductOptionId |-> "opt1",
                                         commonName |-> "firefly-subca", keyAlgorithm |-> "EC_P256",
                                         validityPeriod |-> "P90D"])) :
                          id \in IdOrEmpty, n \in {"subca1", "subca2"}})
    ELSE IF k = "firefly_config"
        THEN ({TransportFailure, Response(404, EmptyBody)}
                \cup {Response(StatusOK,
                               JSONBody(id, <<>>,
                                        [kind |-> "config", name |-> "cfg1",
                                         serviceAccountIds |-> {"sa-uuid"}, policies |-> pols])) :
                          id \in IdOrEmpty,
                          pols \in {{}, {[FireflyPolicy EXCEPT !.id = "policy-uuid"]}}})
    ELSE IF k = "firefly_policy"
        THEN ({TransportFailure, Response(404, EmptyBody),
               Response(StatusOK, JSONBody("id1", <<>>, NoAttrs))}
                \cup {Response(StatusOK,
                               JSONBody(id, <<>>,
                                        [f \in (DOMAIN coercePolicy(plan) \ {"id"}) \cup {"kind"} |->
                                            IF f = "kind" THEN "policy" ELSE coercePolicy(plan)[f]])) :
                          id \in IdOrEmpty,
                          plan \in {pl \in fireflyPolicyResourceModel : pl.name = "policy1"}})
    ELSE GCPReadReplies

\* Answers of the API to the requests one lifecycle method may send, in the
\* order in which it sends them.
Replies(k, name) ==
    IF k = "team" /\ name # "Create" THEN {<<>>}
    ELSE IF k = "cloudprovider_gcp_validate"
        THEN IF name = "Delete" THEN {<<>>} ELSE {<<r>> : r \in GCPValidationReplies}
    ELSE IF name = "Read" THEN {<<r>> : r \in ReadReplies(k)}
    ELSE IF k = "cloudprovider_gcp" THEN {<<r>> : r \in GCPWriteReplies}
    ELSE IF k = "registry_account" /\ name = "Create"
        THEN {<<r>> : r \in RegistryCreateReplies}
    ELSE IF k = "certificate_template" /\ name # "Delete"
        THEN CAAccountsReplies \X WriteReplies
    ELSE IF k = "application" /\ name = "Delete"
        THEN WriteReplies \X WriteReplies \X WriteReplies
    ELSE {<<r>> : r \in WriteReplies}

\* The Create method of the resource type.
CreateOutcome(k, plan, r) ==
    IF k = "team" THEN teamResource_Create(plan, r[1])
    ELSE IF k = "service_account" THEN serviceAccountResource_Create(plan, r[1])
    ELSE IF k = "registry_account" THEN registryAccountResource_Create(plan, r[1])
    ELSE IF k = "plugin" THEN pluginResource_Create(plan, r[1])
    ELSE IF k = "certificate_template"
        THEN certificateTemplateResource_Create(plan, r[1], r[2])
    ELSE IF k = "application" THEN applicationResource_Create(plan, r[1])
    ELSE IF k = "firefly_policy" THEN fireflyPolicyResource_Create(plan, r[1])
    ELSE IF k = "firefly_subca" THEN fireflySubCAResource_Create(plan, r[1])
    ELSE IF k = "firefly_config" THEN fireflyConfigResource_Create(plan, r[1])
    ELSE IF k = "cloudprovider_gcp_validate"
        THEN cloudProviderGCPValidateResource_Create(plan, r[1])
    ELSE cloudProviderGCPResource_Create(plan, r[1])

\* The Read method of the resource type.
ReadOutcome(k, st, r) ==
    IF k = "team" THEN teamResource_Read(st)
    ELSE IF k = "service_account" THEN serviceAccountResource_Read(st, r[1])
    ELSE IF k = "registry_account" THEN registryAccountResource_Read(st, r[1])
    ELSE IF k = "plugin" THEN pluginResource_Read(st, r[1])
    ELSE IF k = "certificate_template" THEN certificateTemplateResource_Read(st, r[1])
    ELSE IF k = "application" THEN applicationResource_Read(st, r[1])
    ELSE IF k = "firefly_policy" THEN fireflyPolicyResource_Read(st, r[1])
    ELSE IF k = "firefly_subca" THEN fireflySubCAResource_Read(st, r[1])
    ELSE IF k = "firefly_config" THEN fireflyConfigResource_Read(st, r[1])
    ELSE IF k = "cloudprovider_gcp_validate"
        THEN cloudProviderGCPValidateResource_Read(st, r[1])
    ELSE cloudProviderGCPResource_Read(st, r[1])

\* The Update method of the resource type.
UpdateOutcome(k, plan, st, r) ==
    IF k = "team" THEN teamResource_Update(plan, st)
    ELSE IF k = "service_account" THEN serviceAccountResource_Update(plan, st, r[1])
    ELSE IF k = "registry_account" THEN registryAccountResource_Update(plan, st, r[1])
    ELSE IF k = "plugin" THEN pluginResource_Update(plan, st, r[1])
    ELSE IF k = "certificate_template"
        THEN certificateTemplateResource_Update(plan, st, r[1], r[2])
    ELSE IF k = "application" THEN applicationResource_Update(plan, st, r[1])
    ELSE IF k = "firefly_policy" THEN fireflyPolicyResource_Update(plan, st, r[1])
    ELSE IF k = "firefly_subca" THEN fireflySubCAResource_Update(plan, st, r[1])
    ELSE IF k = "firefly_config" THEN fireflyConfigResource_Update(plan, st, r[1])
    ELSE IF k = "cloudprovider_gcp_validate"
        THEN cloudProviderGCPValidateResource_Update(plan, st, r[1])
    ELSE cloudProviderGCPResource_Update(plan, st, r[1])

\* The Delete method of the resource type.
DeleteOutcome(k, st, r) ==
    IF k = "team" THEN teamResource_Delete(st)
    ELSE IF k = "service_account" THEN serviceAccountResource_Delete(st, r[1])
    ELSE IF k = "registry_account" THEN registryAccountResource_Delete(st, r[1])
    ELSE IF k = "plugin" THEN pluginResource_Delete(st, r[1])
    ELSE IF k = "certificate_template" THEN certificateTemplateResource_Delete(st, r[1])
    ELSE IF k = "application" THEN applicationResource_Delete(st, r[1], r[2], r[3])
    ELSE IF k = "firefly_policy" THEN fireflyPolicyResource_Delete(st, r[1])
    ELSE IF k = "firefly_subca" THEN fireflySubCAResource_Delete(st, r[1])
    ELSE IF k = "firefly_config" THEN fireflyConfigResource_Delete(st, r[1])
    ELSE IF k = "cloudprovider_gcp_validate" THEN cloudProviderGCPValidateResource_Delete(st)
    ELSE cloudProviderGCPResource_Delete(st, r[1])

\* The framework runs one lifecycle operation of the instance at a time and
\* stores what it leaves behind.
Apply(name, plan, r, out) ==
    /\ op = NoOp
    /\ kind \in ResourceKinds
    /\ op' = Operation(name, plan, state,
                       [i \in 1..Len(out.calls) |->
                           i <= Len(r) /\ r[i].fail = "transport"])
    /\ calls' = out.calls
    /\ diag' = out.diag
    /\ state' = out.state
    /\ UNCHANGED <<kind, ret, transport, sent, provider, threads>>

\* Create is called for a resource that has no state yet.
Create ==
    /\ state = Absent
    /\ \E plan \in ResourceModel(kind), r \in Replies(kind, "Create") :
           Apply("Create", plan, r, CreateOutcome(kind, plan, r))

\* Read refreshes the state of an existing resource.
Read ==
    /\ state # Absent
    /\ \E r \in Replies(kind, "Read") :
           Apply("Read", Absent, r, ReadOutcome(kind, state, r))

\* Update is called with the previous state and a plan for an existing
\* resource.
Update ==
    /\ state # Absent
    /\ \E p \in ResourceModel(kind), r \in Replies(kind, "Update") :
           LET plan == UseStateForUnknown(p, state, StateForUnknownAttrs(kind))
           IN  Apply("Update", plan, r, UpdateOutcome(kind, plan, state, r))

\* Delete is called with the state of an existing resource.
Delete ==
    /\ state # Absent
    /\ \E r \in Replies(kind, "Delete") :
           Apply("Delete", Absent, r, DeleteOutcome(kind, state, r))

\* The lifecycle call returns to the framework: the request-scoped plan,
\* request log and diagnostics are gone, the persisted state stays.
Finish ==
    /\ op # NoOp
    /\ op' = NoOp
    /\ calls' = <<>>
    /\ diag' = <<>>
    /\ UNCHANGED <<kind, state, ret, transport, sent, provider, threads>>

\* A resource of type k that has not been created yet.
InitKind(k) ==
    /\ kind = k
    /\ state = Absent
    /\ op = NoOp
    /\ calls = <<>>
    /\ diag = <<>>
    /\ ret = NoCall
    /\ transport = <<>>
    /\ sent = NoRequest
    /\ provider = NoProvider
    /\ threads = NoThreads

Init == \E k \in ResourceKinds : InitKind(k)

InitSA == InitKind("service_account")

InitTeam == InitKind("team")

Next == Create \/ Read \/ Update \/ Delete \/ Finish

Spec == Init /\ [][Next]_vars

SpecSA == InitSA /\ [][Next]_vars

SpecTeam == InitTeam /\ [][Next]_vars

\* The GCP cloud provider and its validation sub-resource.
SpecGCP ==
    (InitKind("cloudprovider_gcp") \/ InitKind("cloudprovider_gcp_validate")) /\ [][Next]_vars

(***************************************************************************)
(* The API client on its own, GraphQL functions included                   *)
(***************************************************************************)

GraphQLFns ==
    {"CreateCloudProviderGCP", "GetCloudProviderGCP", "UpdateCloudProviderGCP",
     "DeleteCloudProviderGCP", "GetCloudProviderGCPValidation", "ValidateCloudProviderGCP"}

\* The answers the GraphQL endpoint can give to the operation of fn.
GraphQLReplies(fn) ==
    IF fn = "GetCloudProviderGCP" THEN GCPReadReplies
    ELSE IF fn \in {"GetCloudProviderGCPValidation", "ValidateCloudProviderGCP"}
        THEN GCPValidationReplies
    ELSE GCPWriteReplies

CallGraphQL(fn, id, reply) ==
    CASE fn = "CreateCloudProviderGCP" ->
             CreateCloudProviderGCP([CloudProviderGCP EXCEPT !.name = "n", !.team = id], reply)
      [] fn = "GetCloudProviderGCP" -> GetCloudProviderGCP(id, reply)
      [] fn = "UpdateCloudProviderGCP" ->
             UpdateCloudProviderGCP([CloudProviderGCP EXCEPT !.id = id, !.team = "team-uuid"],
                                    reply)
      [] fn = "DeleteCloudProviderGCP" -> DeleteCloudProviderGCP(id, reply)
      [] fn = "GetCloudProviderGCPValidation" -> GetCloudProviderGCPValidation(id, reply)
      [] fn = "ValidateCloudProviderGCP" -> ValidateCloudProviderGCP(id, reply)

ClientGraphQL ==
    \E fn \in GraphQLFns, id \in UUIDs \cup {"not-a-uuid"} :
        \E reply \in GraphQLReplies(fn) : Call(fn, id, reply, CallGraphQL(fn, id, reply))

NextClient ==
    /\ kind = "client"
    /\ \/ ClientCreate
       \/ ClientUpdate
       \/ ClientGet
       \/ ClientDelete
       \/ ClientGraphQL
       \/ ClientReturn

SpecClient == InitClient /\ [][NextClient]_vars

\* Resources under their reconcilers, and the client called on its own.
SpecProvider == (Init \/ InitClient) /\ [][Next \/ NextClient]_vars

(***************************************************************************)
(* Properties of Update under an unchanged plan                            *)
(***************************************************************************)

\* A request that writes: anything but a GET and the GraphQL listing query.
IsWrite(c) ==
    /\ c.method # "GET"
    /\ ~(c.collection = "/graphql" /\ c.body.operation = "GCPProviders")

WriteCalls == {i \in 1..Len(calls) : IsWrite(calls[i])}

\* The attributes the provider computes; the plan of an Update leaves them
\* to the reconciler.
ComputedAttrs(k) ==
    IF k = "registry_account" THEN {"id", "oci_account_name", "oci_registry_token"}
    ELSE IF k = "cloudprovider_gcp" THEN {"id", "issuer_url"}
    ELSE {"id"}

\* The operation in progress is an Update whose plan gives every configured
\* attribute the value it has in the previous state.
UnchangedUpdate ==
    /\ op.name = "Update"
    /\ \A k \in DOMAIN op.plan \ ComputedAttrs(kind) : op.plan[k] = op.prior[k]

\* C8, as stated: for every reconciler, an Update whose planned state equals
\* the previous state issues no write call to the API.
C8_UnchangedUpdateIssuesNoWrite == UnchangedUpdate => WriteCalls = {}

\* C8, as the code has it: an Update whose planned state equals the previous
\* state issues no write call under the team reconciler; under every other
\* reconciler it issues its update call all the same, so that whenever it
\* ends without an error exactly one write call has been issued.
C8_UnchangedUpdateWrites ==
    UnchangedUpdate =>
        IF kind = "team"
            THEN WriteCalls = {}
            ELSE diag = <<>> => Cardinality(WriteCalls) = 1

\* An Update of a sub-CA provider with an unchanged plan has ended without an
\* error after sending its PUT.
C8_Witness ==
    /\ UnchangedUpdate
    /\ kind = "firefly_subca"
    /\ diag = <<>>
    /\ Cardinality(WriteCalls) = 1
    /\ calls[1].fn = "UpdateFireflySubCAProvider"

(***************************************************************************)
(* Application claims                                                      *)
(***************************************************************************)

SpecApplication == InitKind("application") /\ [][Next]_vars

\* An owner map Create and Update refuse: its type tag is not USER or TEAM
\* (or is missing), or its owner id is empty.
BadOwner(m) ==
    \/ "type" \notin DOMAIN m
    \/ m.type \notin {"USER", "TEAM"}
    \/ m.owner = ""

\* The {type, id} pairs of a list of owner maps, in order.
OwnerPairs(owners) ==
    [i \in 1..Len(owners) |-> [ownerId |-> owners[i].owner, ownerType |-> owners[i].type]]

C12_Sent ==
    /\ kind = "application"
    /\ op.name = "Create"
    /\ Len(op.plan.owners) = 2
    /\ Len(calls) = 1
    /\ calls[1].body.ownerIdsAndTypes = OwnerPairs(op.plan.owners)

\* The update call of the delete fallback: a PUT of application id whose
\* alias map is empty.
IsFallbackUpdate(c, id) ==
    /\ c.fn = "UpdateApplication"
    /\ c.method = "PUT"
    /\ c.id = id
    /\ c.body.certificateIssuingTemplateAliasIdMap = {}

\* A delete call for application id.
IsDeleteCall(c, id) == c.fn = "DeleteApplication" /\ c.method = "DELETE" /\ c.id = id

\* C13: application Delete: whenever the first delete call returns an error,
\* of any kind, the next call is an update of the same application with an
\* empty certificate-template-alias map and, after that update succeeds, a
\* second delete call for the same id follows; the calls are always in the
\* order delete, update, delete.
C13_DeleteUpdateDelete ==
    (kind = "application" /\ state # Absent) =>
        \A r \in Replies("application", "Delete") :
            LET first == DeleteApplication(state.id, r[1])
                out == applicationResource_Delete(state, r[1], r[2], r[3])
            IN  ~first.err.nil =>
                    /\ Len(out.calls) \in {2, 3}
                    /\ IsDeleteCall(out.calls[1], state.id)
                    /\ IsFallbackUpdate(out.calls[2], state.id)
                    /\ (Len(out.calls) = 3) <=> (out.diag = <<>> \/ out.diag[1].summary = "Error Deleting Application")
                    /\ Len(out.calls) = 3 => IsDeleteCall(out.calls[3], state.id)

(***************************************************************************)
(* Retries and error reporting                                             *)
(***************************************************************************)

\* The operation in progress is the Delete of an application, the one
\* lifecycle method with a fallback.
ApplicationDelete == kind = "application" /\ op.name = "Delete"

\* The provider id a validation Create or Update passes to the client: the
\* planned one in Create, the persisted one in Update.
ValidatedId == IF op.name = "Create" THEN op.plan.cloudprovider_id ELSE op.prior.cloudprovider_id

C15_EveryFailureSurfaced ==
    \A i \in 1..Len(calls) :
        (op.failed[i] /\ ~(ApplicationDelete /\ i = 1)) => HasError(diag)

(***************************************************************************)
(* GCP validation and cloud-provider claims                                *)
(***************************************************************************)

\* C16: GCP validation is terminal: once the persisted validate attribute of
\* a validation resource is true, it is true after every later Read and
\* Update, whatever the API answers; an Update that plans validate = false is
\* rejected with an error and no API call.
C16_ValidationTerminal ==
    (kind = "cloudprovider_gcp_validate" /\ op.name \in {"Read", "Update"}) =>
        /\ op.prior.validate => state.validate
        /\ (op.name = "Update" /\ ~op.plan.validate) =>
               /\ HasError(diag)
               /\ calls = <<>>
               /\ state = op.prior

\* C17: Delete of a validation resource is a no-op: it issues no API call and
\* reports no error of its own.  The remote validation status can only change
\* through a request, so it is left as it was.
C17_DeleteIsNoOp ==
    (kind = "cloudprovider_gcp_validate" /\ op.name = "Delete") =>
        /\ calls = <<>>
        /\ diag = <<>>
        /\ state = Absent

\* The Delete of a validated resource has run.
C17_Witness ==
    /\ kind = "cloudprovider_gcp_validate"
    /\ op.name = "Delete"
    /\ op.prior.validate
    /\ calls = <<>>
    /\ diag = <<>>

\* The nodes of the listing a GetCloudProviderGCP call was answered with,
\* and the positions of those that carry the requested id.
ListedNodes == ret.reply.body.attrs.nodes

Matching == {i \in 1..Len(ListedNodes) : ListedNodes[i].id = ret.id}

FirstMatch == ListedNodes[CHOOSE i \in Matching : \A j \in Matching : i <= j]

\* A node GetCloudProviderGCP can decode: its configuration is the GCP member
\* of the union and its project number is a decimal number.
Decodable(node) == node.configType = "gcp" /\ ParseInt(node.projectNumber).ok

\* The listing of a GetCloudProviderGCP call arrived and was decoded.
Listed == ret.fn = "GetCloudProviderGCP" /\ ret.reply.fail = "none" /\ ret.reply.body.valid

\* C18, as stated: reading a GCP cloud provider by id issues exactly one
\* collection query; if some provider of the returned collection has the
\* requested id, the call returns that provider's decoded configuration; if
\* none has it, it returns a "not found" error without a further request.
C18_ReadById ==
    ret.fn = "GetCloudProviderGCP" =>
        /\ Len(ret.result.reqs) = 1
        /\ ret.result.reqs[1].body.operation = "GCPProviders"
        /\ (Listed /\ Matching # {}) =>
               /\ ret.result.err.nil
               /\ ret.result.value = FromGCPNode(FirstMatch)
               /\ ret.result.value.id = ret.id
        /\ (Listed /\ Matching = {}) =>
               /\ ~ret.result.err.nil
               /\ ret.result.err.msg = "GCP CloudProvider not found"

\* C18, as the code has it: the configuration returned is that of the first
\* provider with the requested id, provided it decodes; when its
\* configuration is not a GCP configuration or its project number is not a
\* number, the call returns an error instead.
C18_ReadByIdDecodable ==
    ret.fn = "GetCloudProviderGCP" =>
        /\ Len(ret.result.reqs) = 1
        /\ ret.result.reqs[1].body.operation = "GCPProviders"
        /\ (Listed /\ Matching # {} /\ Decodable(FirstMatch)) =>
               /\ ret.result.err.nil
               /\ ret.result.value = FromGCPNode(FirstMatch)
               /\ ret.result.value.id = ret.id
        /\ (Listed /\ Matching # {} /\ ~Decodable(FirstMatch)) =>
               /\ ~ret.result.err.nil
               /\ ret.result.err.msg # "GCP CloudProvider not found"
        /\ (Listed /\ Matching = {}) =>
               /\ ~ret.result.err.nil
               /\ ret.result.err.msg = "GCP CloudProvider not found"

\* The provider looked up was the second of two listed ones and its own
\* configuration came back.
C18_Witness ==
    /\ Listed
    /\ Len(ListedNodes) = 2
    /\ Matching = {2}
    /\ ret.result.err.nil
    /\ ret.result.value.name = ListedNodes[2].name
    /\ ret.result.value.name # ListedNodes[1].name
    /\ Len(ret.result.reqs) = 1

(***************************************************************************)
(* Firefly policy claims                                                   *)
(***************************************************************************)

SpecFireflyPolicy == InitKind("firefly_policy") /\ [][Next]_vars

\* The four SAN tables and the six subject tables of a policy model.
PolicyTables(m) ==
    {m.sans[f] : f \in DOMAIN m.sans} \cup {m.subject[f] : f \in DOMAIN m.subject}

\* C19: Firefly policy round trip: for every constraint table p of a planned
\* policy (an unset default_values included), decoding the encoding of p,
\* coercePolicyModel(coercePolicyDetails(p)), yields a table equal to p field
\* for field; this holds for each of the four SAN tables and six subject
\* tables.
C19_PolicyRoundTrip ==
    (kind = "firefly_policy" /\ op.name \in {"Create", "Update"}) =>
        \A p \in PolicyTables(op.plan) :
            \A f \in DOMAIN p : coercePolicyModel(coercePolicyDetails(p))[f] = p[f]

(***************************************************************************)
(* The GraphQL transport (Client.GetGraphQLClient, withHeader)             *)
(***************************************************************************)

\* The client handles of the process (NewClient): the API key and the
\* provider version of each.
Clients ==
    {[apikey |-> "key1", version |-> "1.0"], [apikey |-> "key2", version |-> "1.0"],
     [apikey |-> "key3", version |-> "2.0"]}

\* The length to which the chain of wrappers is followed.
MaxWrappers == 3

\* The User-Agent value of client c: "terraform-provider-tlspc/" + c.version.
UserAgent(c) == <<"terraform-provider-tlspc/", c.version>>

\* WithHeader(rt): a wrapper with an empty header map around rt; a nil rt
\* stands for http.DefaultTransport, the empty chain.
WithHeader(rt) == Append(rt, [k \in {} |-> ""])

\* Client.GetGraphQLClient: the transport of http.DefaultClient, whatever it
\* is by now, is wrapped once more and the wrapper, carrying the caller's
\* headers, is stored back into http.DefaultClient, which the returned
\* GraphQL client points to.
GetGraphQLClient(c, rt) ==
    [WithHeader(rt) EXCEPT ![Len(rt) + 1] =
        [k \in {"Tppl-Api-Key", "User-Agent"} |->
            IF k = "Tppl-Api-Key" THEN c.apikey ELSE UserAgent(c)]]

RECURSIVE RoundTrip(_, _)
\* withHeader.RoundTrip, from the outermost wrapper inwards: each wrapper
\* with a non-empty header map overwrites the request's headers with its own
\* and hands the request to the transport it wraps.
RoundTrip(rt, header) ==
    IF rt = <<>>
        THEN header
    ELSE LET h == rt[Len(rt)]
         IN  RoundTrip(SubSeq(rt, 1, Len(rt) - 1),
                       [k \in DOMAIN header \cup DOMAIN h |->
                           IF k \in DOMAIN h THEN h[k] ELSE header[k]])

\* Client c obtains its GraphQL client.
CallGetGraphQLClient ==
    /\ kind = "graphql"
    /\ Len(transport) < MaxWrappers
    /\ \E c \in Clients : transport' = GetGraphQLClient(c, transport)
    /\ UNCHANGED <<kind, state, op, calls, diag, ret, sent, provider, threads>>

\* A request is sent through the GraphQL client of a client handle that has
\* obtained one; it travels through http.DefaultClient as it is now.
SendGraphQL ==
    /\ kind = "graphql"
    /\ \E c \in Clients :
           /\ \E i \in 1..Len(transport) : transport[i]["Tppl-Api-Key"] = c.apikey
           /\ sent' = [client |-> c,
                       header |-> RoundTrip(transport,
                                            [k \in {"Content-Type"} |-> "application/json"])]
    /\ UNCHANGED <<kind, state, op, calls, diag, ret, transport, provider, threads>>

InitGraphQL ==
    /\ kind = "graphql"
    /\ state = Absent
    /\ op = NoOp
    /\ calls = <<>>
    /\ diag = <<>>
    /\ ret = NoCall
    /\ transport = <<>>
    /\ sent = NoRequest
    /\ provider = NoProvider
    /\ threads = NoThreads

NextGraphQL == CallGetGraphQLClient \/ SendGraphQL

SpecGraphQL == InitGraphQL /\ [][NextGraphQL]_vars

\* C20: every GraphQL request carries the tppl-api-key and the version-stamped
\* User-Agent of the client that issued it: after any sequence of
\* GetGraphQLClient calls made by any clients of the process, a request sent
\* through client c's GraphQL client has tppl-api-key equal to c's API key.
C20_RequestCarriesOwnKey ==
    sent # NoRequest =>
        /\ sent.header["Tppl-Api-Key"] = sent.client.apikey
        /\ sent.header["User-Agent"] = UserAgent(sent.client)

(***************************************************************************)
(* Application Delete claims                                               *)
(***************************************************************************)

\* The positions of the requests of client function fn in the request log.
CallsTo(fn) == {i \in 1..Len(calls) : calls[i].fn = fn}

\* The tlspc.Application the fallback of Delete builds from persisted state
\* st: id, name and owners of the state, no aliases, nothing else.
FallbackApplication(st) ==
    [Application EXCEPT !.id = st.id, !.name = st.name,
                        !.ownerIdsAndTypes = OwnerPairs(st.owners)]

\* C23: application Delete ends after at most two delete calls and at most
\* one update call; when the first delete call succeeds, it issues no update
\* call and no second delete call.
C23_DeleteBounded ==
    kind = "application" =>
        /\ op.name = "Delete" =>
               /\ Cardinality(CallsTo("DeleteApplication")) <= 2
               /\ Cardinality(CallsTo("UpdateApplication")) <= 1
               /\ CallsTo("DeleteApplication") \cup CallsTo("UpdateApplication")
                      = 1..Len(calls)
        /\ state # Absent =>
               \A r \in Replies("application", "Delete") :
                   DeleteApplication(state.id, r[1]).err.nil =>
                       applicationResource_Delete(state, r[1], r[2], r[3]).calls
                           = DeleteApplication(state.id, r[1]).reqs

\* A Delete that went through the whole fallback: two deletes, one update.
C23_Witness ==
    /\ kind = "application"
    /\ op.name = "Delete"
    /\ CallsTo("DeleteApplication") = {1, 3}
    /\ CallsTo("UpdateApplication") = {2}

\* C24: application Delete ends without an error diagnostic exactly when a
\* delete call succeeded: the first one, or the second one after a successful
\* fallback update; if the fallback update fails, an error is reported and no
\* second delete is issued; if the second delete fails, its error is
\* reported.
C24_DeleteErrors ==
    (kind = "application" /\ state # Absent) =>
        \A r \in Replies("application", "Delete") :
            LET first == DeleteApplication(state.id, r[1])
                updated == UpdateApplication(FallbackApplication(state), r[2])
                second == DeleteApplication(state.id, r[3])
                out == applicationResource_Delete(state, r[1], r[2], r[3])
            IN  /\ out.diag = <<>> <=>
                       (first.err.nil \/ (updated.err.nil /\ second.err.nil))
                /\ (~first.err.nil /\ ~updated.err.nil) =>
                       /\ HasError(out.diag)
                       /\ out.diag[1].err = updated.err
                       /\ \A i \in 2..Len(out.calls) : out.calls[i].fn # "DeleteApplication"
                /\ (~first.err.nil /\ updated.err.nil /\ ~second.err.nil) =>
                       /\ HasError(out.diag)
                       /\ out.diag[1].err = second.err

\* The second delete of a Delete failed and its error was reported.
C24_Witness ==
    /\ kind = "application"
    /\ op.name = "Delete"
    /\ Len(calls) = 3
    /\ HasError(diag)
    /\ diag[1].summary = "Error Deleting Application"
    /\ state = op.prior

\* C25: the fallback update of application Delete changes only the alias
\* map: it is addressed to the persisted id and its payload carries the
\* persisted name, exactly the persisted owners and an empty alias map; its
\* other attributes are the ones every create and update request of the
\* reconciler carries.
C25_FallbackPayload ==
    (kind = "application" /\ op.name = "Delete") =>
        \A i \in CallsTo("UpdateApplication") :
            /\ calls[i].id = op.prior.id
            /\ calls[i].body =
                   MarshalApplication([FallbackApplication(op.prior) EXCEPT !.id = ""])
            /\ calls[i].body.name = op.prior.name
            /\ calls[i].body.ownerIdsAndTypes = OwnerPairs(op.prior.owners)
            /\ calls[i].body.certificateIssuingTemplateAliasIdMap = {}
            /\ \A k \in DOMAIN calls[i].body \ {"name", "ownerIdsAndTypes",
                                               "certificateIssuingTemplateAliasIdMap"} :
                   calls[i].body[k] = Application[k]

\* The fallback update of an application that has an owner and an alias.
C25_Witness ==
    /\ kind = "application"
    /\ op.name = "Delete"
    /\ CallsTo("UpdateApplication") = {2}
    /\ Len(op.prior.owners) > 0
    /\ op.prior.ca_template_aliases.elems # {}
    /\ calls[2].body.certificateIssuingTemplateAliasIdMap = {}

(***************************************************************************)
(* Firefly sub-CA claims                                                   *)
(***************************************************************************)

SpecFireflySubCA == InitKind("firefly_subca") /\ [][Next]_vars

\* C26: Delete of a firefly_subca resource issues its delete request against
\* the sub-CA-provider collection, /v1/distributedissuers/subcaproviders/{id},
\* with the persisted identifier, and never issues a delete against the
\* configurations or policies collections.
C26_DeleteSubCAProvider ==
    (kind = "firefly_subca" /\ op.name = "Delete") =>
        /\ Len(calls) = 1
        /\ \A i \in 1..Len(calls) :
               /\ calls[i].method = "DELETE"
               /\ calls[i].collection = "/v1/distributedissuers/subcaproviders/"
               /\ calls[i].id = op.prior.id
               /\ calls[i].collection \notin {"/v1/distributedissuers/configurations/",
                                              "/v1/distributedissuers/policies/"}

(***************************************************************************)
(* GCP validation: what Create and Update persist                          *)
(***************************************************************************)

\* C27: after every Create or Update of a cloudprovider_gcp_validate resource
\* that ends without an error diagnostic, the persisted validate attribute is
\* true (so an answer "not validated" never leaves validate = false without
\* an error), and a plan with validate = false is rejected with an error
\* before any API call.
C27_ValidateTrueAfterWrite ==
    (kind = "cloudprovider_gcp_validate" /\ op.name \in {"Create", "Update"}) =>
        /\ ~HasError(diag) => (state # Absent /\ state.validate = TRUE)
        /\ ~op.plan.validate => (HasError(diag) /\ calls = <<>>)

(***************************************************************************)
(* What Create and Update persist, for every resource type                 *)
(***************************************************************************)

\* The resource types whose persisted state has an id attribute.
KindsWithId == {k \in ResourceKinds : \A m \in ResourceModel(k) : "id" \in DOMAIN m}

\* C28: for every reconciler, an Update that ends without an error
\* diagnostic leaves the persisted identifier unchanged and non-empty: it is
\* the identifier persisted before the Update, whatever the API answered.
C28_UpdateKeepsId ==
    (kind \in KindsWithId /\ op.name = "Update" /\ ~HasError(diag)) =>
        /\ state # Absent
        /\ state.id = op.prior.id
        /\ state.id # ""

(***************************************************************************)
(* Registry-account claims                                                 *)
(***************************************************************************)

SpecRegistryAccount == InitKind("registry_account") /\ [][Next]_vars

\* C29: the oci_account_name and oci_registry_token a registry account has
\* in persisted state are unchanged by every Read and every Update of it
\* (whatever the API answers, and whether or not the operation fails), and
\* every create and update request of a registry account carries
\* authenticationType = "ociToken".
C29_CredentialsStable ==
    kind = "registry_account" =>
        /\ op.name \in {"Read", "Update"} =>
               /\ state # Absent
               /\ state.oci_account_name = op.prior.oci_account_name
               /\ state.oci_registry_token = op.prior.oci_registry_token
        /\ \A i \in 1..Len(calls) :
               calls[i].method \in {"POST", "PATCH"} =>
                   /\ "authenticationType" \in DOMAIN calls[i].body
                   /\ calls[i].body.authenticationType = "ociToken"

\* A Read that succeeded on a registry account holding the credentials its
\* Create received.
C29_Witness ==
    /\ kind = "registry_account"
    /\ op.name = "Read"
    /\ ~HasError(diag)
    /\ Len(calls) = 1
    /\ state.oci_account_name = "oci-acct"
    /\ state.oci_registry_token = "oci-token"

\* C30: state is persisted only on success. For every reconciler, a Create
\* or Update that reported an error (a refused plan, or a client call that
\* returned an error, a transport failure among them) leaves the persisted
\* state as it was before the operation; and a Create that persisted state
\* persisted, where the resource type has an id, the non-empty identifier the
\* API returned in its answer to the write call.
C30_PersistedOnlyOnSuccess ==
    op.name \in {"Create", "Update"} =>
        /\ HasError(diag) => state = op.prior
        /\ (\E i \in DOMAIN op.failed : op.failed[i]) =>
               (HasError(diag) /\ state = op.prior)
        /\ (op.name = "Create" /\ state # Absent /\ kind \in KindsWithId) =>
               /\ state.id # ""
               /\ \A r \in Replies(kind, "Create") :
                      CreateOutcome(kind, op.plan, r) = Outcome(calls, diag, state) =>
                          state.id = r[Len(r)].body.id

\* An Update whose write call was sent and failed, on a plan that differs
\* from the state.
C30_Witness ==
    /\ op.name = "Update"
    /\ HasError(diag)
    /\ Len(calls) > 0
    /\ op.plan # op.prior
    /\ state = op.prior

(***************************************************************************)
(* Provider configuration (tlspcProvider.Configure, tlspc.NewClient)       *)
(***************************************************************************)

DefaultEndpoint == "https://api.venafi.cloud"

\* Mutant: the endpoint is stored as given, empty or not.
NewClientNoDefault(apikey, endpoint, version) ==
    [apikey |-> apikey, endpoint |-> endpoint, version |-> version]

\* tlspc.NewClient: an empty endpoint is replaced by DefaultEndpoint.
NewClient(apikey, endpoint, version) ==
    [apikey |-> apikey,
     endpoint |-> IF endpoint = "" THEN DefaultEndpoint ELSE endpoint,
     version |-> version]

\* tlspcProvider.Configure: the environment variables are read first, a
\* non-null configuration value replaces each, and the client is built.
tlspcProvider_Configure(config, env, version) ==
    LET apikey == IF ~config.apikey.null THEN config.apikey.value ELSE env.TLSPC_APIKEY
        endpoint ==
            IF ~config.endpoint.null THEN config.endpoint.value ELSE env.TLSPC_ENDPOINT
    IN  NewClient(apikey, endpoint, version)

\* Client.Path: the endpoint of the handle in front of the path.
Path(c, path) == <<c.endpoint, path>>

\* The provider blocks the framework hands to Configure.  The schema marks
\* apikey as required, so it is never null; endpoint is optional.
ProviderConfigs ==
    [apikey : {StringValue(v) : v \in {"", "key1", "key2"}},
     endpoint : {StringNull} \cup {StringValue(v) : v \in {"", "https://api.venafi.eu"}}]

\* The values of TLSPC_APIKEY and TLSPC_ENDPOINT in the environment; an unset
\* variable reads as "".
Environments ==
    [TLSPC_APIKEY : {"", "envkey"}, TLSPC_ENDPOINT : {"", "https://env.example"}]

\* The framework configures the provider once, before any resource is
\* touched.
Configure ==
    /\ kind = "provider"
    /\ provider.client = NoClient
    /\ provider' =
           [provider EXCEPT !.client =
               tlspcProvider_Configure(provider.config, provider.env, provider.version)]
    /\ UNCHANGED <<kind, state, op, calls, diag, ret, transport, sent, threads>>

\* The environment of the process changes.
Setenv ==
    /\ kind = "provider"
    /\ \E env \in Environments : provider' = [provider EXCEPT !.env = env]
    /\ UNCHANGED <<kind, state, op, calls, diag, ret, transport, sent, threads>>

\* Client.doRequest through the configured handle: the URL is built by
\* Client.Path and the headers are set from the fields of the handle.
Request ==
    /\ kind = "provider"
    /\ provider.client # NoClient
    /\ \E path \in {"/v1/teams", "/v1/serviceaccounts"} :
           sent' = [client |-> provider.client,
                    url |-> Path(provider.client, path),
                    header |-> [k \in {"Content-Type", "Tppl-Api-Key", "User-Agent"} |->
                                   IF k = "Content-Type" THEN "application/json"
                                   ELSE IF k = "Tppl-Api-Key" THEN provider.client.apikey
                                   ELSE UserAgent(provider.client)]]
    /\ UNCHANGED <<kind, state, op, calls, diag, ret, transport, provider, threads>>

InitConfigure ==
    /\ kind = "provider"
    /\ state = Absent
    /\ op = NoOp
    /\ calls = <<>>
    /\ diag = <<>>
    /\ ret = NoCall
    /\ transport = <<>>
    /\ sent = NoRequest
    /\ \E config \in ProviderConfigs, env \in Environments :
           provider = [NoProvider EXCEPT !.config = config, !.env = env, !.version = "1.0"]
    /\ threads = NoThreads

NextConfigure == Configure \/ Setenv \/ Request

SpecConfigure == InitConfigure /\ [][NextConfigure]_vars

\* The value Configure resolves for a setting: the declared value when one
\* is declared, the environment variable otherwise.
Resolved(declared, variable) == IF declared.null THEN variable ELSE declared.value

Enter(t) ==
    /\ kind = "concurrent"
    /\ threads[t].pc = "idle"
    /\ Len(transport) < MaxWrappers
    /\ \E c \in Clients :
           threads' = [threads EXCEPT ![t] = [pc |-> "entered", client |-> c, rt |-> <<>>]]
    /\ UNCHANGED <<kind, state, op, calls, diag, ret, transport, sent, provider>>

\* rt := WithHeader(httpClient.Transport): the shared field is read.
Load(t) ==
    /\ kind = "concurrent"
    /\ threads[t].pc = "entered"
    /\ threads' = [threads EXCEPT ![t].pc = "loaded", ![t].rt = transport]
    /\ UNCHANGED <<kind, state, op, calls, diag, ret, transport, sent, provider>>

\* httpClient.Transport = rt: the wrapper around what was loaded is written
\* to the shared field; no lock is held.
Store(t) ==
    /\ kind = "concurrent"
    /\ threads[t].pc = "loaded"
    /\ transport' = GetGraphQLClient(threads[t].client, threads[t].rt)
    /\ threads' = [threads EXCEPT ![t].pc = "stored"]
    /\ UNCHANGED <<kind, state, op, calls, diag, ret, sent, provider>>

\* The operation sends its request through http.DefaultClient, which reads
\* the shared field to find its transport, and returns.
Send(t) ==
    /\ kind = "concurrent"
    /\ threads[t].pc = "stored"
    /\ sent' = [client |-> threads[t].client,
                header |-> RoundTrip(transport,
                                     [k \in {"Content-Type"} |-> "application/json"])]
    /\ threads' = [threads EXCEPT ![t].pc = "idle"]
    /\ UNCHANGED <<kind, state, op, calls, diag, ret, transport, provider>>

InitConcurrent ==
    /\ kind = "concurrent"
    /\ state = Absent
    /\ op = NoOp
    /\ calls = <<>>
    /\ diag = <<>>
    /\ ret = NoCall
    /\ transport = <<>>
    /\ sent = NoRequest
    /\ provider = NoProvider
    /\ threads = NoThreads

NextConcurrent == \E t \in Threads : Enter(t) \/ Load(t) \/ Store(t) \/ Send(t)

SpecConcurrent == InitConcurrent /\ [][NextConcurrent]_vars

\* The access to http.DefaultClient.Transport goroutine t makes next.
NextAccess(t) ==
    CASE threads[t].pc = "entered" -> "read"
      [] threads[t].pc = "loaded" -> "write"
      [] threads[t].pc = "stored" -> "read"
      [] OTHER -> "none"

\* C21: lifecycle operations share no mutable state: no operation writes a
\* location that another operation running at the same time reads or
\* writes, so no interleaving reaches a data race.
C21_NoDataRace ==
    \A t1, t2 \in Threads :
        (t1 # t2 /\ NextAccess(t1) = "write") => NextAccess(t2) = "none"

====
